---------------------------- MODULE Spec2Model ----------------------------
(***************************************************************************)
(* Long-term memory subsystem of the Cowai bot: the SQLite store           *)
(* (memory_sqlite.py), the vector helpers (memory_vector.py) and the       *)
(* per-user facade (personality/memory_long.py).                           *)
(*                                                                         *)
(* Conventions                                                             *)
(*  - a Python str is a sequence of one-character strings, so that strip,  *)
(*    lower, len and the tokenizer are computed and not assumed;           *)
(*  - a Python float in [0,1] is a fixed-point number of tenths (One is    *)
(*    1.0); values that are not numbers keep their kind (NaN, not a        *)
(*    number, missing);                                                    *)
(*  - a table is the set of its rows; AUTOINCREMENT ids come from a        *)
(*    counter that never goes back.                                        *)
(***************************************************************************)
EXTENDS Integers, Sequences, FiniteSets, TLC

VARIABLES
    now,            \* time.time() as read by now_ts()
    facts,          \* table facts
    episodes,       \* table episodes
    nextEpisodeId,  \* AUTOINCREMENT of episodes.id
    messages,       \* table messages
    nextMessageId,  \* AUTOINCREMENT of messages.id
    msg_counter,    \* SQLiteMemory._msg_counter
    recorded,       \* per user, the add_message calls that returned since the counter
                    \* of the user was last reset (or since start)
    cyclesOver,     \* per user, the extraction cycles in a row that ended with more
                    \* messages or episodes of the user than prune keeps
    data,           \* Long_Term_Memory.data of the facade last constructed for a user
    files,          \* memory/users/<user_id>.json: the JSON snapshots
    reading,        \* add_message between its read of the counter and its write
    workers,        \* the threads of asyncio.to_thread running maybe_extract
    last,           \* the last call: its name, its user, its arguments, what it
                    \* returned (out) and what it found in the table it writes (was)
    conn,           \* SQLiteMemory._lock and the calls of the threads on SQLiteMemory.conn
    embed,          \* memory_vector._EMBED_CACHE and the embed_text calls of the threads
    burst,          \* BurstBuffer: _bursts, the worker tasks and what the handler got
    mq,             \* message_queue.MessageQueue: the queue, the flags and the worker tasks
    migration       \* migrate_embeddings.migrate(): its position and its counters

\* the facade objects and their files
facadeVars == <<data, files>>

\* the positions of the event-loop thread and of the worker threads
threadVars == <<reading, workers>>

\* what the operations on the tables leave alone: the lock steps of the calls, the
\* embedding cache, the burst buffer, the message queue and the embedding backfill
asideVars == <<conn, embed, burst, mq, migration>>

vars == <<now, facts, episodes, nextEpisodeId, messages, nextMessageId, msg_counter, recorded, cyclesOver, data, files, reading, workers, last, conn, embed, burst, mq, migration>>

-----------------------------------------------------------------------------
(* Bounds of the model *)

MaxTicks == 2          \* the clock takes MaxTicks + 1 values
MaxEpisodes == 2       \* episodes ever inserted
MaxMessages == 2       \* messages ever inserted (store specification)
MaxUses == 1           \* retrievals counted per episode
MaxWorkers == 2        \* worker threads of the default executor
MaxTurnMessages == 9   \* messages recorded through the facade
MaxCeilMessages == 16  \* messages recorded on top of a full message log

(* Program constants *)

One == 10              \* 1.0 in tenths
DaySeconds == 86400
TickSeconds == 10 * DaySeconds  \* the clock advances ten days at a time
RecencyDays == 30
CandidateLimit == 160
VectorRowLimit == 500
DefaultConfidence == 7
DefaultImportance == 5
MaxKeyLen == 48
MaxValueLen == 240
MaxTextLen == 280
MaxFactsPerCall == 10
MaxEpisodesPerCall == 3
MaxTagLen == 24
MaxTags == 8
ExtractEvery == 8
ExtractWindow == 12
KeepEpisodes == 600
KeepMessages == 300
MaxPromptEpisodes == 6
SimilarityThreshold == 30   \* 0.3 in hundredths
RecencyWeight == 3          \* 0.3 in tenths

Users == {1, 2}

-----------------------------------------------------------------------------
(* Python strings *)

Whitespace == {" ", "\n"}

RECURSIVE LStrip(_)
LStrip(s) == IF s # <<>> /\ Head(s) \in Whitespace THEN LStrip(Tail(s)) ELSE s

RECURSIVE RStrip(_)
RStrip(s) ==
    IF s # <<>> /\ s[Len(s)] \in Whitespace THEN RStrip(SubSeq(s, 1, Len(s) - 1)) ELSE s

Strip(s) == RStrip(LStrip(s))

LowerChar(c) ==
    CASE c = "A" -> "a"
      [] c = "B" -> "b"
      [] c = "C" -> "c"
      [] c = "D" -> "d"
      [] c = "E" -> "e"
      [] c = "N" -> "n"
      [] OTHER -> c

Lower(s) == [i \in 1..Len(s) |-> LowerChar(s[i])]

\* the string of n copies of the character c
Rep(c, n) == [i \in 1..n |-> c]

RECURSIVE Join(_, _)
Join(parts, sep) ==
    IF parts = <<>> THEN <<>>
    ELSE IF Len(parts) = 1 THEN parts[1]
    ELSE parts[1] \o sep \o Join(Tail(parts), sep)

\* xs[:n]
Take(xs, n) == SubSeq(xs, 1, IF Len(xs) < n THEN Len(xs) ELSE n)

Range(xs) == {xs[i] : i \in 1..Len(xs)}

Min(a, b) == IF a < b THEN a ELSE b

-----------------------------------------------------------------------------
(* _norm_words *)

WordChars == {"a", "b", "c", "d", "n", "x", "0", "1", "'"}

\* re.findall(r"[a-zA-Z0-9']{2,}", s) on a lower-cased s: the maximal runs of
\* word characters of length two or more, left to right
RECURSIVE FindWords(_, _)
FindWords(s, run) ==
    IF s = <<>> THEN (IF Len(run) >= 2 THEN <<run>> ELSE <<>>)
    ELSE IF Head(s) \in WordChars THEN FindWords(Tail(s), Append(run, Head(s)))
    ELSE (IF Len(run) >= 2 THEN <<run>> ELSE <<>>) \o FindWords(Tail(s), <<>>)

RECURSIVE Unique(_, _)
Unique(ws, seen) ==
    IF ws = <<>> THEN <<>>
    ELSE IF Head(ws) \in seen THEN Unique(Tail(ws), seen)
    ELSE <<Head(ws)>> \o Unique(Tail(ws), seen \cup {Head(ws)})

NormWords(text) == Unique(FindWords(Lower(text), <<>>), {})

-----------------------------------------------------------------------------
(* Python floats and clamp *)

Num(n) == [kind |-> "num", val |-> n]
NaN == [kind |-> "nan", val |-> 0]
NotANumber == [kind |-> "bad", val |-> 0]    \* None, "high", a list: float() raises
Missing == [kind |-> "missing", val |-> 0]   \* the key is absent from the dict

\* a < b on floats: every comparison with NaN is false
FloatLt(a, b) == a.kind = "num" /\ b.kind = "num" /\ a.val < b.val

\* min(a, b) and max(a, b) of Python: the first argument unless the second is beyond it
PyMin(a, b) == IF FloatLt(b, a) THEN b ELSE a
PyMax(a, b) == IF FloatLt(a, b) THEN b ELSE a

ClampNoUpper(value, lo, hi) ==
    LET v == IF value.kind \in {"num", "nan"} THEN value ELSE Num(0)
    IN  PyMax(Num(lo), v)

clamp(value, lo, hi) ==
    LET v == IF value.kind \in {"num", "nan"} THEN value ELSE Num(0)
    IN  PyMax(Num(lo), PyMin(Num(hi), v))

-----------------------------------------------------------------------------
(* Facts *)

\* str(user_id): one-to-one on the integer ids
Uid(user_id) == user_id

\* SELECT ... WHERE user_id=?
RowsOf(rows, uid) == {r \in rows : r.user_id = uid}

FactsOf(uid) == RowsOf(facts, uid)

\* INSERT INTO facts ... : a plain insert, no conflict clause
InsertFactRow(rows, row) == rows \cup {row}

\* INSERT INTO facts ... ON CONFLICT(user_id, key) DO UPDATE SET value, confidence, updated_ts
UpsertFactRow(rows, row) ==
    {r \in rows : ~(r.user_id = row.user_id /\ r.key = row.key)} \cup {row}

\* the table after upsert_fact(user_id, key, value, confidence)
FactsAfterUpsert(rows, user_id, key, value, confidence) ==
    LET k == Lower(Strip(key))
        v == Strip(value)
        c == clamp(confidence, 0, One)
    IN  IF k = <<>> \/ v = <<>> THEN rows
        ELSE UpsertFactRow(rows, [user_id |-> Uid(user_id), key |-> k, value |-> v,
                                   confidence |-> c, updated_ts |-> now])

\* get_facts: the dict comprehension over the rows ORDER BY updated_ts DESC keeps,
\* for a key, the value of the last row that has it
get_facts(user_id) ==
    LET rows == FactsOf(Uid(user_id))
    IN  [k \in {r.key : r \in rows} |->
            (CHOOSE r \in rows : r.key = k /\
                \A r2 \in rows : r2.key = k => r.updated_ts <= r2.updated_ts).value]

UpsertFact(user_id, key, value, confidence) ==
    /\ facts' = FactsAfterUpsert(facts, user_id, key, value, confidence)
    /\ last' = [op |-> "upsert_fact", user |-> user_id, arg |-> <<key, value>>,
                out |-> <<>>,
                was |-> {r.value : r \in {x \in FactsOf(Uid(user_id)) :
                                              x.key = Lower(Strip(key))}}]
    /\ UNCHANGED <<asideVars, now, episodes, nextEpisodeId, messages, nextMessageId, msg_counter, recorded,
                 cyclesOver, facadeVars, threadVars>>

-----------------------------------------------------------------------------
(* Row orders *)

\* the orders in which SELECT ... ORDER BY <key> DESC may return the rows S: rows of
\* equal key come in an order SQL leaves open
RECURSIVE DescOrders(_, _)
DescOrders(S, key) ==
    IF S = {} THEN {<<>>}
    ELSE UNION {{<<r>> \o o : o \in DescOrders(S \ {r}, key)} :
                   r \in {x \in S : \A y \in S : key[x] >= key[y]}}

TsDescOrders(S) == DescOrders(S, [r \in S |-> r.ts])

\* LIMIT n of SQLite: a negative n is no limit
Limit(o, n) == IF n < 0 THEN o ELSE Take(o, n)

-----------------------------------------------------------------------------
(* Episodes *)

NoEmbedding == <<>>     \* None, NULL

EpisodesOf(uid) == RowsOf(episodes, uid)

\* struct.pack(f"{n}f", ...): one float32 per component; the integers of the model
\* are below 2^24 and are float32 values
Float32(x) == IF -16777216 <= x /\ x <= 16777216 THEN x ELSE 2 * (x \div 2)
embedding_to_blob(embedding) == [i \in 1..Len(embedding) |-> Float32(embedding[i])]

\* ", ".join([str(t).strip().lower() for t in tags if str(t).strip()])
TagsStr(tags) ==
    LET NonBlank(t) == Strip(t) # <<>>
        kept == SelectSeq(tags, NonBlank)
    IN  Join([i \in 1..Len(kept) |-> Lower(Strip(kept[i]))], <<",", " ">>)

\* the row add_episode inserts; embedding is what mv.embed_text returned, or
\* NoEmbedding when embed is false, the vector module is missing or the call failed
EpisodeRow(id, user_id, text, tags, importance, ts, embedding) ==
    [id |-> id, user_id |-> Uid(user_id),
     ts |-> IF ts = 0 THEN now ELSE ts,
     text |-> Strip(text), tags |-> TagsStr(tags),
     importance |-> clamp(importance, 0, One),
     times_used |-> 0, last_used_ts |-> 0,
     embedding |-> IF embedding # NoEmbedding THEN embedding_to_blob(embedding)
                   ELSE NoEmbedding]

AddEpisode(user_id, text, tags, importance, ts, embedding) ==
    /\ nextEpisodeId <= MaxEpisodes
    /\ IF Strip(text) = <<>>
       THEN UNCHANGED <<episodes, nextEpisodeId>>
       ELSE /\ episodes' = episodes \cup
                   {EpisodeRow(nextEpisodeId, user_id, text, tags, importance, ts, embedding)}
            /\ nextEpisodeId' = nextEpisodeId + 1
    /\ last' = [op |-> "add_episode", user |-> user_id, arg |-> <<text, importance>>,
                out |-> <<>>, was |-> Cardinality(EpisodesOf(Uid(user_id)))]
    /\ UNCHANGED <<asideVars, now, facts, messages, nextMessageId, msg_counter, recorded,
                 cyclesOver, facadeVars, threadVars>>

-----------------------------------------------------------------------------
(* Lexical retrieval *)

\* the Episode dataclass built from a row
EpisodeOf(row) ==
    [id |-> row.id, user_id |-> row.user_id, ts |-> row.ts, text |-> row.text,
     tags |-> row.tags, importance |-> row.importance]

\* set(_norm_words(f"{ep.text} {ep.tags}".lower()))
EpisodeWords(ep) == Range(NormWords(Lower(ep.text \o <<" ">> \o ep.tags)))

QueryWords(query) == Range(NormWords(Strip(query)))

Overlap(query, ep) == Cardinality(QueryWords(query) \cap EpisodeWords(ep))

RecencySpan == RecencyDays * DaySeconds

\* clamp(1.0 - age_days / 30.0, 0.0, 1.0) with age_days = max(0.0, (now - ts) / 86400.0),
\* in units of 1 / RecencySpan
Recency(ts) ==
    LET age == IF now - ts < 0 THEN 0 ELSE now - ts
    IN  IF age >= RecencySpan THEN 0 ELSE RecencySpan - age

\* (overlap * 2.0) + (importance * 1.5) + (recency * 1.0), in units of 1 / (20 * RecencySpan)
LexicalScore(ep, overlap) ==
    40 * RecencySpan * overlap + 3 * RecencySpan * ep.importance.val + 20 * Recency(ep.ts)

\* a sort that puts an element in front of the elements of its score
RECURSIVE InsertBeforeEqual(_, _)
InsertBeforeEqual(sorted, x) ==
    IF sorted = <<>> THEN <<x>>
    ELSE IF Head(sorted).score > x.score THEN <<Head(sorted)>> \o InsertBeforeEqual(Tail(sorted), x)
    ELSE <<x>> \o sorted

\* list.sort(key=score, reverse=True): stable, equal scores keep the order they had
RECURSIVE InsertDesc(_, _)
InsertDesc(sorted, x) ==
    IF sorted = <<>> THEN <<x>>
    ELSE IF Head(sorted).score >= x.score THEN <<Head(sorted)>> \o InsertDesc(Tail(sorted), x)
    ELSE <<x>> \o sorted

RECURSIVE SortDescFrom(_, _)
SortDescFrom(sorted, rest) ==
    IF rest = <<>> THEN sorted ELSE SortDescFrom(InsertDesc(sorted, Head(rest)), Tail(rest))

SortDesc(scored) == SortDescFrom(<<>>, scored)

\* the gate of the scan: `if overlap <= 0: continue`
NoGate(query, ep) == TRUE

PassesGate(query, ep) == Overlap(query, ep) > 0

\* the list `picked` of retrieve_relevant for the candidate rows in scan order
LexicalPicked(candidates, query, limit) ==
    LET Gate(row) == PassesGate(query, row)
        kept == SelectSeq(candidates, Gate)
        scored == [i \in 1..Len(kept) |->
                     [score |-> LexicalScore(kept[i], Overlap(query, kept[i])),
                      ep |-> EpisodeOf(kept[i])]]
        sorted == SortDesc(scored)
    IN  [i \in 1..Len(Take(sorted, limit)) |-> sorted[i].ep]

\* what retrieve_relevant may return: one list per order of the candidate scan
LexicalResults(user_id, query, limit) ==
    IF Strip(query) = <<>> \/ QueryWords(query) = {} THEN {<<>>}
    ELSE {LexicalPicked(Limit(o, CandidateLimit), query, limit) :
             o \in TsDescOrders(EpisodesOf(Uid(user_id)))}

\* UPDATE episodes SET times_used = times_used + 1, last_used_ts = ? WHERE id = ?
UpdateUsageTwice(rows, id) ==
    {IF r.id = id THEN [r EXCEPT !.times_used = @ + 2, !.last_used_ts = now] ELSE r : r \in rows}

UpdateUsage(rows, id) ==
    {IF r.id = id THEN [r EXCEPT !.times_used = @ + 1, !.last_used_ts = now] ELSE r : r \in rows}

\* for ep in picked: UPDATE ...
RECURSIVE MarkUsed(_, _)
MarkUsed(rows, picked) ==
    IF picked = <<>> THEN rows ELSE MarkUsed(UpdateUsage(rows, Head(picked).id), Tail(picked))

\* times_used stays within the bound of the model
UsesLeft(picked) ==
    \A i \in 1..Len(picked) : \A r \in episodes : r.id = picked[i].id => r.times_used < MaxUses

RetrieveRelevant(user_id, query, limit) ==
    /\ \E picked \in LexicalResults(user_id, query, limit) :
          /\ UsesLeft(picked)
          /\ episodes' = MarkUsed(episodes, picked)
          /\ last' = [op |-> "retrieve_relevant", user |-> user_id, arg |-> <<query, limit>>,
                      out |-> picked, was |-> "lexical"]
    /\ UNCHANGED <<asideVars, now, facts, nextEpisodeId, messages, nextMessageId, msg_counter, recorded,
                 cyclesOver, facadeVars, threadVars>>

-----------------------------------------------------------------------------
(* Vector retrieval *)

Dot(a, b) == a[1] * b[1] + a[2] * b[2]

\* np.linalg.norm: the vectors of the model have whole norms
Norm(a) == CHOOSE n \in 0..Dot(a, a) : n * n = Dot(a, a)

\* the cosine of find_similar in hundredths: a zero norm of a candidate counts as 1
Similarity(q, blob) ==
    (100 * Dot(q, blob)) \div (Norm(q) * (IF Norm(blob) = 0 THEN 1 ELSE Norm(blob)))

\* find_similar(query_embedding, candidates, top_k, threshold): candidates are
\* (id, blob) pairs, threshold in hundredths
find_similar(query_embedding, candidates, top_k, threshold) ==
    IF query_embedding = NoEmbedding \/ candidates = <<>> THEN <<>>
    ELSE IF Norm(query_embedding) = 0 THEN <<>>
    ELSE LET HasBlob(c) == c.blob # NoEmbedding
             withBlob == SelectSeq(candidates, HasBlob)
             sims == [i \in 1..Len(withBlob) |->
                        [id |-> withBlob[i].id,
                         score |-> Similarity(query_embedding, withBlob[i].blob)]]
             Near(x) == x.score >= threshold
         IN  Take(SortDesc(SelectSeq(sims, Near)), top_k)

\* (sim_score * (1 - recency_weight)) + (recency * recency_weight), recency_weight in
\* tenths, in units of 100 / (1000 * RecencySpan)
HybridScore(sim, ts, recency_weight) ==
    sim * (10 - recency_weight) * (RecencySpan \div 100) + Recency(ts) * recency_weight

\* the list `picked` of the vector branch, for the embedded rows in fetch order
VectorPicked(rows, similar, limit, recency_weight) ==
    LET RowOf(id) == CHOOSE i \in 1..Len(rows) : rows[i].id = id
        scored == [i \in 1..Len(similar) |->
                     [score |-> HybridScore(similar[i].score, rows[RowOf(similar[i].id)].ts,
                                            recency_weight),
                      ep |-> EpisodeOf(rows[RowOf(similar[i].id)])]]
        sorted == SortDesc(scored)
    IN  [i \in 1..Len(Take(sorted, limit)) |-> sorted[i].ep]

\* what retrieve_relevant_vector may return, with the branch taken: mv is whether the
\* vector module loaded, query_embedding is what embed_text(query) returned
VectorFallbackEmpty(user_id, query, limit) == {<<>>}

VectorFallback(user_id, query, limit) == LexicalResults(user_id, query, limit)

VectorResults(user_id, query, limit, similarity_threshold, recency_weight, mv, query_embedding) ==
    IF Strip(query) = <<>> THEN {[path |-> "empty query", picked |-> <<>>]}
    ELSE IF ~mv THEN
        {[path |-> "no vector module", picked |-> p] : p \in VectorFallback(user_id, query, limit)}
    ELSE IF query_embedding = NoEmbedding THEN
        {[path |-> "no query embedding", picked |-> p] : p \in VectorFallback(user_id, query, limit)}
    ELSE UNION {
        LET rows == Limit(o, VectorRowLimit)
            candidates == [i \in 1..Len(rows) |-> [id |-> rows[i].id, blob |-> rows[i].embedding]]
            similar == find_similar(query_embedding, candidates, limit * 2, similarity_threshold)
        IN  IF rows = <<>> THEN
                {[path |-> "no embedded episode", picked |-> p] :
                    p \in VectorFallback(user_id, query, limit)}
            ELSE IF similar = <<>> THEN
                {[path |-> "nothing similar", picked |-> p] :
                    p \in VectorFallback(user_id, query, limit)}
            ELSE {[path |-> "vector",
                   picked |-> VectorPicked(rows, similar, limit, recency_weight)]} :
        o \in TsDescOrders({e \in EpisodesOf(Uid(user_id)) : e.embedding # NoEmbedding})}

RetrieveRelevantVector(user_id, query, limit, similarity_threshold, recency_weight, mv, query_embedding) ==
    /\ \E r \in VectorResults(user_id, query, limit, similarity_threshold, recency_weight,
                              mv, query_embedding) :
          /\ UsesLeft(r.picked)
          /\ episodes' = MarkUsed(episodes, r.picked)
          /\ last' = [op |-> "retrieve_relevant_vector", user |-> user_id,
                      arg |-> <<query, limit, mv /\ query_embedding # NoEmbedding>>,
                      out |-> r.picked, was |-> r.path]
    /\ UNCHANGED <<asideVars, now, facts, nextEpisodeId, messages, nextMessageId, msg_counter, recorded,
                 cyclesOver, facadeVars, threadVars>>

-----------------------------------------------------------------------------
(* Messages *)

RoleUser == <<"u", "s", "e", "r">>
RoleAssistant == <<"a", "s", "s", "i", "s", "t", "a", "n", "t">>
RoleSystem == <<"s", "y", "s", "t", "e", "m">>

MessagesOf(uid) == RowsOf(messages, uid)

\* redact: no content of the model holds a token-shaped or key=value-shaped secret,
\* and a substitution never empties a content
redact(text) == text

CounterOf(uid) == IF uid \in DOMAIN msg_counter THEN msg_counter[uid] ELSE 0

MessageRow(id, user_id, role, content, ts) ==
    [id |-> id, user_id |-> Uid(user_id),
     ts |-> IF ts = 0 THEN now ELSE ts,
     role |-> IF Lower(Strip(role)) \in {RoleUser, RoleAssistant, RoleSystem}
              THEN Lower(Strip(role)) ELSE RoleUser,
     content |-> redact(Strip(content))]

\* self._msg_counter[uid] = count + 1
CounterWrite(counter, uid, count) ==
    [u \in DOMAIN counter \cup {uid} |-> IF u = uid THEN count + 1 ELSE counter[u]]

\* self._msg_counter[uid] = self._msg_counter.get(uid, 0) + 1, with no other thread
\* between the read and the write
CounterAfterMessage(counter, uid) ==
    CounterWrite(counter, uid, IF uid \in DOMAIN counter THEN counter[uid] ELSE 0)

\* the message log and the counter after add_message
AddMessageEffect(user_id, role, content, ts) ==
    IF redact(Strip(content)) = <<>>
    THEN UNCHANGED <<messages, nextMessageId, msg_counter, recorded>>
    ELSE /\ messages' = messages \cup
                {MessageRow(nextMessageId, user_id, role, content, ts)}
         /\ nextMessageId' = nextMessageId + 1
         /\ msg_counter' = CounterAfterMessage(msg_counter, Uid(user_id))
         /\ recorded' = [recorded EXCEPT ![user_id] = @ + 1]

AddMessage(user_id, role, content, ts) ==
    /\ nextMessageId <= MaxMessages
    /\ AddMessageEffect(user_id, role, content, ts)
    /\ last' = [op |-> "add_message", user |-> user_id, arg |-> content, out |-> <<>>,
                was |-> Cardinality(MessagesOf(Uid(user_id)))]
    /\ UNCHANGED <<asideVars, now, facts, episodes, nextEpisodeId, cyclesOver, facadeVars, threadVars>>

\* get_recent_messages: the first `limit` rows by ts DESC, reversed
RecentMessages(user_id, limit) ==
    {LET top == Limit(o, limit)
     IN  [i \in 1..Len(top) |-> top[Len(top) + 1 - i]] :
        o \in TsDescOrders(MessagesOf(Uid(user_id)))}

\* get_recent_messages(user_id, limit): the dicts returned, and with them the ids of
\* the rows they were made from
GetRecentMessages(user_id, limit) ==
    /\ \E rows \in RecentMessages(user_id, limit) :
          last' = [op |-> "get_recent_messages", user |-> user_id, arg |-> limit,
                   out |-> [i \in 1..Len(rows) |->
                               [role |-> rows[i].role, content |-> rows[i].content]],
                   was |-> [i \in 1..Len(rows) |-> rows[i].id]]
    /\ UNCHANGED <<asideVars, now, facts, episodes, nextEpisodeId, messages, nextMessageId, msg_counter,
                   recorded, cyclesOver, facadeVars, threadVars>>

should_extract(user_id, every_n_messages) == CounterOf(Uid(user_id)) >= every_n_messages

\* a counter that is never written
CounterKept(counter, uid) == counter

\* self._msg_counter[str(user_id)] = 0
CounterAfterReset(counter, uid) ==
    [u \in DOMAIN counter \cup {uid} |-> IF u = uid THEN 0 ELSE counter[u]]

ResetExtractCounter(user_id) ==
    /\ msg_counter' = CounterAfterReset(msg_counter, Uid(user_id))
    /\ recorded' = [recorded EXCEPT ![user_id] = 0]
    /\ last' = [op |-> "reset_extract_counter", user |-> user_id, arg |-> <<>>,
                out |-> <<>>, was |-> CounterOf(Uid(user_id))]
    /\ UNCHANGED <<asideVars, now, facts, episodes, nextEpisodeId, messages, nextMessageId, cyclesOver, facadeVars, threadVars>>

-----------------------------------------------------------------------------
(* Pruning *)

\* the sets of rows `SELECT id FROM t WHERE user_id=? ORDER BY x DESC LIMIT n` may
\* name, for the rows S of the user: every row above the n-th value of x and as many
\* rows at that value as fill the limit (SQL leaves the choice among equals open)
TopBy(S, n, key) ==
    LET m == IF n < 0 \/ n > Cardinality(S) THEN Cardinality(S) ELSE n
    IN  IF m = 0 THEN {{}}
        ELSE IF m = Cardinality(S) THEN {S}
        ELSE LET cut == CHOOSE k \in {key[x] : x \in S} :
                            /\ Cardinality({x \in S : key[x] > k}) < m
                            /\ Cardinality({x \in S : key[x] >= k}) >= m
                 above == {x \in S : key[x] > cut}
             IN  {above \cup C : C \in {D \in SUBSET {x \in S : key[x] = cut} :
                                             Cardinality(D) = m - Cardinality(above)}}

KeptByIdDesc(S, n) == TopBy(S, n, [r \in S |-> r.id])

KeptByTsDesc(S, n) == TopBy(S, n, [r \in S |-> r.ts])

\* DELETE FROM t WHERE id NOT IN (kept): the statement without its owner clause
DeleteNotInAnyUser(rows, uid, kept) == {r \in rows : r \in kept}

\* DELETE FROM t WHERE user_id=? AND id NOT IN (kept)
DeleteNotIn(rows, uid, kept) == {r \in rows : r.user_id # uid \/ r \in kept}

\* the two tables after prune, from the tables eRows and mRows
Pruned(eRows, mRows, user_id, keep_episodes, keep_messages) ==
    {[episodes |-> DeleteNotIn(eRows, Uid(user_id), ke),
      messages |-> DeleteNotIn(mRows, Uid(user_id), km)] :
        ke \in KeptByTsDesc(RowsOf(eRows, Uid(user_id)), keep_episodes),
        km \in KeptByTsDesc(RowsOf(mRows, Uid(user_id)), keep_messages)}

PruneEffect(user_id, keep_episodes, keep_messages) ==
    \E t \in Pruned(episodes, messages, user_id, keep_episodes, keep_messages) :
        /\ episodes' = t.episodes
        /\ messages' = t.messages

Prune(user_id, keep_episodes, keep_messages) ==
    /\ PruneEffect(user_id, keep_episodes, keep_messages)
    /\ last' = [op |-> "prune", user |-> user_id,
                arg |-> <<keep_episodes, keep_messages>>, out |-> <<>>,
                was |-> <<Cardinality(EpisodesOf(Uid(user_id))),
                          Cardinality(MessagesOf(Uid(user_id)))>>]
    /\ UNCHANGED <<asideVars, now, facts, nextEpisodeId, nextMessageId, msg_counter, recorded,
                 cyclesOver, facadeVars, threadVars>>

-----------------------------------------------------------------------------
(* LLM extraction *)

\* What ask_llama_fn did: raised, or returned a text that json.loads rejects
\* ("not json"), that parses to something else than a dict ("not object"), or that
\* parses to a dict ("object"). In a dict, facts and episodes are lists of items or
\* something else (list = FALSE); an item is a dict or something else (dict = FALSE).
LlmRaises == [kind |-> "raises"]
LlmNotJson == [kind |-> "not json"]
LlmNotObject == [kind |-> "not object"]
LlmObject(fs, eps) == [kind |-> "object", facts |-> fs, episodes |-> eps]
JsonList(items) == [list |-> TRUE, items |-> items]
JsonNotList == [list |-> FALSE, items |-> <<>>]
FactItem(key, value, confidence) ==
    [dict |-> TRUE, key |-> key, value |-> value, confidence |-> confidence]
EpisodeItem(text, tags, importance) ==
    [dict |-> TRUE, text |-> text, tags |-> tags, importance |-> importance]
NotADict == [dict |-> FALSE]

\* try: float(x) except Exception: default
FloatOr(x, default) == IF x.kind \in {"num", "nan"} THEN x ELSE Num(default)

\* the checks of the facts loop that end in `continue`
FactItemValid(f) ==
    /\ f.dict
    /\ Strip(f.key) # <<>>
    /\ Strip(f.value) # <<>>
    /\ Len(Strip(f.key)) <= MaxKeyLen
    /\ Len(Strip(f.value)) <= MaxValueLen

\* for f in facts[:10]: the loop leaves at the first item it rejects
RECURSIVE ExtractFactsUntilInvalid(_, _, _)
ExtractFactsUntilInvalid(rows, user_id, items) ==
    IF items = <<>> \/ ~FactItemValid(Head(items)) THEN rows
    ELSE ExtractFactsUntilInvalid(
            FactsAfterUpsert(rows, user_id, Strip(Head(items).key), Strip(Head(items).value),
                             FloatOr(Head(items).confidence, DefaultConfidence)),
            user_id, Tail(items))

\* for f in facts[:10]: ... self.upsert_fact(user_id, key, val, confidence=conf)
RECURSIVE ExtractFacts(_, _, _)
ExtractFacts(rows, user_id, items) ==
    IF items = <<>> THEN rows
    ELSE ExtractFacts(
            IF FactItemValid(Head(items))
            THEN FactsAfterUpsert(rows, user_id, Strip(Head(items).key),
                                  Strip(Head(items).value),
                                  FloatOr(Head(items).confidence, DefaultConfidence))
            ELSE rows,
            user_id, Tail(items))

EpisodeItemValid(e) ==
    /\ e.dict
    /\ Strip(e.text) # <<>>
    /\ Len(Strip(e.text)) <= MaxTextLen

\* [str(t)[:24] for t in tags if str(t).strip()][:8]
ExtractTags(tags) ==
    IF ~tags.list THEN <<>>
    ELSE LET NonBlank(t) == Strip(t) # <<>>
             kept == SelectSeq(tags.items, NonBlank)
         IN  Take([i \in 1..Len(kept) |-> Take(kept[i], MaxTagLen)], MaxTags)

\* for e in eps[:3]: ... self.add_episode(user_id, text=text, tags=tags, importance=imp);
\* embeddings[i] is what embed_text returned for the i-th item
RECURSIVE ExtractEpisodes(_, _, _, _, _)
ExtractEpisodes(rows, nextId, user_id, items, embeddings) ==
    IF items = <<>> THEN [rows |-> rows, nextId |-> nextId]
    ELSE IF EpisodeItemValid(Head(items))
    THEN ExtractEpisodes(
            rows \cup {EpisodeRow(nextId, user_id, Strip(Head(items).text),
                                  ExtractTags(Head(items).tags),
                                  FloatOr(Head(items).importance, DefaultImportance),
                                  0, Head(embeddings))},
            nextId + 1, user_id, Tail(items), Tail(embeddings))
    ELSE ExtractEpisodes(rows, nextId, user_id, Tail(items), Tail(embeddings))

\* get_recent_messages(user_id, limit=window) is empty
NoRecentMessages(user_id, window) == MessagesOf(Uid(user_id)) = {} \/ window = 0

\* extract_and_store raises: the exception of ask_llama_fn is not caught
ExtractRaises(user_id, llm, window) ==
    ~NoRecentMessages(user_id, window) /\ llm.kind = "raises"

\* a slice that keeps the whole list
WholeList(items, n) == items

\* facts[:10], eps[:3]
Slice(items, n) == Take(items, n)

FactsAfterExtract(user_id, llm) ==
    IF llm.facts.list THEN ExtractFacts(facts, user_id, Slice(llm.facts.items, MaxFactsPerCall))
    ELSE facts

EpisodesAfterExtract(user_id, llm, embeddings) ==
    IF llm.episodes.list
    THEN ExtractEpisodes(episodes, nextEpisodeId, user_id,
                         Slice(llm.episodes.items, MaxEpisodesPerCall), embeddings)
    ELSE [rows |-> episodes, nextId |-> nextEpisodeId]

\* extract_and_store once the answer parsed to a dict: the two loops, then
\* self.prune(user_id); max_id is the last episode id the model follows
ProcessAnswerWithin(max_id, user_id, llm, embeddings) ==
    LET added == EpisodesAfterExtract(user_id, llm, embeddings)
    IN  /\ added.nextId <= max_id + 1
        /\ facts' = FactsAfterExtract(user_id, llm)
        /\ nextEpisodeId' = added.nextId
        /\ \E t \in Pruned(added.rows, messages, user_id, KeepEpisodes, KeepMessages) :
              /\ episodes' = t.episodes
              /\ messages' = t.messages

ProcessAnswer(user_id, llm, embeddings) ==
    ProcessAnswerWithin(MaxEpisodes, user_id, llm, embeddings)

\* a variant that keeps an answer it could not parse as an episode
ExtractCommitKeepsRaw(user_id, llm, embeddings) ==
    IF llm.kind = "object" THEN ProcessAnswer(user_id, llm, embeddings)
    ELSE /\ nextEpisodeId <= MaxEpisodes
         /\ episodes' = episodes \cup
                {EpisodeRow(nextEpisodeId, user_id, <<"r", "a", "w">>, <<>>,
                            Num(DefaultImportance), 0, NoEmbedding)}
         /\ nextEpisodeId' = nextEpisodeId + 1
         /\ UNCHANGED <<facts, messages>>

\* extract_and_store from the answer of ask_llama_fn on: the two loops and
\* self.prune(user_id) when the answer parsed to a dict, nothing otherwise
ExtractCommit(user_id, llm, embeddings) ==
    IF llm.kind = "object" THEN ProcessAnswer(user_id, llm, embeddings)
    ELSE UNCHANGED <<facts, episodes, nextEpisodeId, messages>>

\* the tables after extract_and_store(user_id, ask_llama_fn, window)
ExtractEffect(user_id, llm, window, embeddings) ==
    IF NoRecentMessages(user_id, window)
    THEN UNCHANGED <<facts, episodes, nextEpisodeId, messages>>
    ELSE ExtractCommit(user_id, llm, embeddings)

ExtractOutcome(user_id, llm, window) ==
    IF NoRecentMessages(user_id, window) THEN "no messages"
    ELSE IF llm.kind = "object" THEN "processed"
    ELSE llm.kind

ExtractAndStore(user_id, llm, window, embeddings) ==
    /\ ExtractEffect(user_id, llm, window, embeddings)
    /\ last' = [op |-> "extract_and_store", user |-> user_id, arg |-> llm,
                out |-> ExtractOutcome(user_id, llm, window),
                was |-> <<Cardinality(EpisodesOf(Uid(user_id))),
                          Cardinality(MessagesOf(Uid(user_id)))>>]
    /\ UNCHANGED <<asideVars, now, nextMessageId, msg_counter, recorded,
                 cyclesOver, facadeVars, threadVars>>

\* extract_and_store on a table that may take episode ids up to max_id
ExtractAndStoreWithin(max_id, user_id, llm, window, embeddings) ==
    /\ IF NoRecentMessages(user_id, window) \/ llm.kind # "object"
       THEN UNCHANGED <<facts, episodes, nextEpisodeId, messages>>
       ELSE ProcessAnswerWithin(max_id, user_id, llm, embeddings)
    /\ last' = [op |-> "extract_and_store", user |-> user_id, arg |-> llm,
                out |-> ExtractOutcome(user_id, llm, window),
                was |-> <<Cardinality(EpisodesOf(Uid(user_id))),
                          Cardinality(MessagesOf(Uid(user_id)))>>]
    /\ UNCHANGED <<asideVars, now, nextMessageId, msg_counter, recorded,
                 cyclesOver, facadeVars, threadVars>>

-----------------------------------------------------------------------------
(* Prompt text. A literal of the source is one element of the string.        *)

KeyName == <<"n", "a", "m", "e">>
KeyPreferredLanguage == <<"p", "r", "e", "f", "e", "r", "r", "e", "d", "_", "l", "a", "n", "g", "u", "a", "g", "e">>
KeyLikes == <<"l", "i", "k", "e", "s">>
KeyDislikes == <<"d", "i", "s", "l", "i", "k", "e", "s">>
KeyVoiceEnabled == <<"v", "o", "i", "c", "e", "_", "e", "n", "a", "b", "l", "e", "d">>
English == <<"E", "n", "g", "l", "i", "s", "h">>

\* facts.get(key): the value, or a falsy value when the key is absent
FactGet(f, key) == IF key \in DOMAIN f THEN f[key] ELSE <<>>

\* the orders in which facts.items() may list the rows of the user: the dict is built
\* from the rows ORDER BY updated_ts DESC
FactOrders(user_id) ==
    DescOrders(FactsOf(Uid(user_id)), [r \in FactsOf(Uid(user_id)) |-> r.updated_ts])

\* the lines of facts_as_prompt for the rows in the order o
FactLines(f, o) ==
    LET Extra(r) == /\ r.key \notin {KeyName, KeyPreferredLanguage, KeyLikes, KeyDislikes}
                    /\ r.value # <<>> /\ Len(r.value) <= 200
        extras == SelectSeq(o, Extra)
    IN  (IF FactGet(f, KeyName) # <<>>
         THEN << <<"The person you're talking to is named \"">> \o f[KeyName]
                    \o <<"\" - address them by this name, not yours.">> >>
         ELSE <<>>)
        \o (IF FactGet(f, KeyPreferredLanguage) # <<>>
            THEN << <<"Preferred language: ">> \o f[KeyPreferredLanguage] \o <<".">> >>
            ELSE <<>>)
        \o (IF FactGet(f, KeyLikes) # <<>>
            THEN << <<"User likes: ">> \o f[KeyLikes] \o <<".">> >> ELSE <<>>)
        \o (IF FactGet(f, KeyDislikes) # <<>>
            THEN << <<"User dislikes: ">> \o f[KeyDislikes] \o <<".">> >> ELSE <<>>)
        \o [i \in 1..Len(extras) |-> extras[i].key \o <<":", " ">> \o extras[i].value]

\* what facts_as_prompt(user_id) may return
facts_as_prompt(user_id) ==
    IF FactsOf(Uid(user_id)) = {} THEN {<<>>}
    ELSE {Strip(Join(FactLines(get_facts(user_id), o), <<"\n">>)) : o \in FactOrders(user_id)}

\* time.strftime("%Y-%m-%d", time.localtime(ts)): the day of ts, in UTC
Date(ts) == ToString(ts \div DaySeconds)

episodes_as_prompt(eps) ==
    Join([i \in 1..Len(eps) |->
             <<"- (", Date(eps[i].ts), ") ">> \o eps[i].text
                 \o (IF eps[i].tags # <<>> THEN <<" [">> \o eps[i].tags \o <<"]">> ELSE <<>>)],
         <<"\n">>)

\* "\n\n".join(parts).strip() of build_prompt_injection
PromptText(ep_block, facts_block) ==
    Strip(Join((IF ep_block # <<>> THEN << <<"Relevant memories:\n">> \o ep_block >> ELSE <<>>)
               \o (IF facts_block # <<>> THEN << <<"Known facts:\n">> \o facts_block >>
                   ELSE <<>>),
               <<"\n", "\n">>))

\* what build_prompt_injection may pick and return
PromptInjections(user_id, user_query, max_episodes, use_vector, mv, query_embedding) ==
    {[picked |-> p, prompt |-> PromptText(episodes_as_prompt(p), fb)] :
        p \in IF use_vector
              THEN {r.picked : r \in VectorResults(user_id, user_query, max_episodes,
                                                   SimilarityThreshold, RecencyWeight,
                                                   mv, query_embedding)}
              ELSE LexicalResults(user_id, user_query, max_episodes),
        fb \in facts_as_prompt(user_id)}

BuildPromptInjection(user_id, user_query, max_episodes, use_vector, mv, query_embedding) ==
    /\ \E r \in PromptInjections(user_id, user_query, max_episodes, use_vector, mv,
                                 query_embedding) :
          /\ UsesLeft(r.picked)
          /\ episodes' = MarkUsed(episodes, r.picked)
          /\ last' = [op |-> "build_prompt_injection", user |-> user_id,
                      arg |-> <<user_query, max_episodes>>, out |-> r.prompt,
                      was |-> r.picked]
    /\ UNCHANGED <<asideVars, now, facts, nextEpisodeId, messages, nextMessageId, msg_counter, recorded,
                   cyclesOver, facadeVars, threadVars>>

-----------------------------------------------------------------------------
(* The facade: Long_Term_Memory *)

None == <<"None">>

DefaultData ==
    [name |-> None, preferred_language |-> English, likes |-> <<>>, dislikes |-> <<>>,
     voice_enabled |-> FALSE]

\* s.split(sep)
RECURSIVE Split(_, _, _)
Split(s, sep, cur) ==
    IF s = <<>> THEN <<cur>>
    ELSE IF Head(s) = sep THEN <<cur>> \o Split(Tail(s), sep, <<>>)
    ELSE Split(Tail(s), sep, Append(cur, Head(s)))

\* _list_from_any of a list: the stripped items that are not blank
ListFromList(v) ==
    LET NonBlank(x) == Strip(x) # <<>>
        kept == SelectSeq(v, NonBlank)
    IN  [i \in 1..Len(kept) |-> Strip(kept[i])]

\* _list_from_any of a str: the CSV parts
ListFromStr(v) == ListFromList(Split(v, ",", <<>>))

\* _bool_from_any of a str
BoolFromStr(v) ==
    Lower(Strip(v)) \in {<<"1">>, <<"t", "r", "u", "e">>, <<"y", "e", "s">>, <<"y">>,
                         <<"o", "n">>, <<"e", "n", "a", "b", "l", "e", "d">>}

\* self.data after _load_from_sqlite
LoadFromSqlite(d, user_id) ==
    LET f == get_facts(user_id)
    IN  IF DOMAIN f = {} THEN d
        ELSE [name |-> IF KeyName \in DOMAIN f
                       THEN (IF f[KeyName] # <<>> THEN f[KeyName] ELSE None) ELSE d.name,
              preferred_language |->
                  IF KeyPreferredLanguage \in DOMAIN f
                  THEN (IF f[KeyPreferredLanguage] # <<>> THEN f[KeyPreferredLanguage]
                        ELSE English)
                  ELSE d.preferred_language,
              likes |-> IF KeyLikes \in DOMAIN f THEN ListFromStr(f[KeyLikes]) ELSE d.likes,
              dislikes |-> IF KeyDislikes \in DOMAIN f THEN ListFromStr(f[KeyDislikes])
                           ELSE d.dislikes,
              voice_enabled |-> IF KeyVoiceEnabled \in DOMAIN f
                                THEN BoolFromStr(f[KeyVoiceEnabled]) ELSE d.voice_enabled]

\* self.data after load(): every key of the snapshot file replaces the value held,
\* then the types are normalized; the file holds what save() wrote
Load(d, user_id) ==
    LET loaded == IF Uid(user_id) \in DOMAIN files THEN files[Uid(user_id)] ELSE d
    IN  [name |-> loaded.name,
         preferred_language |-> IF loaded.preferred_language \in {None, <<>>} THEN English
                                ELSE loaded.preferred_language,
         likes |-> ListFromList(loaded.likes),
         dislikes |-> ListFromList(loaded.dislikes),
         voice_enabled |-> loaded.voice_enabled]

\* the facts table after the upserts of save()
SavedFacts(d, user_id) ==
    LET f1 == IF d.name \notin {None, <<>>}
              THEN FactsAfterUpsert(facts, user_id, KeyName, Strip(d.name), Num(9))
              ELSE facts
        f2 == IF d.preferred_language \notin {None, <<>>}
              THEN FactsAfterUpsert(f1, user_id, KeyPreferredLanguage,
                                    Strip(d.preferred_language), Num(9))
              ELSE f1
        likes == Join(ListFromList(d.likes), <<",", " ">>)
        dislikes == Join(ListFromList(d.dislikes), <<",", " ">>)
        f3 == IF likes # <<>> THEN FactsAfterUpsert(f2, user_id, KeyLikes, likes, Num(7))
              ELSE f2
        f4 == IF dislikes # <<>>
              THEN FactsAfterUpsert(f3, user_id, KeyDislikes, dislikes, Num(7)) ELSE f3
    IN  FactsAfterUpsert(f4, user_id, KeyVoiceEnabled,
                         IF d.voice_enabled THEN <<"1">> ELSE <<"0">>, Num(One))

\* the snapshot save() writes
Snapshot(d) ==
    [name |-> d.name, preferred_language |-> d.preferred_language,
     likes |-> ListFromList(d.likes), dislikes |-> ListFromList(d.dislikes),
     voice_enabled |-> d.voice_enabled]

\* f[x] = y added to the function f
With(f, x, y) == [z \in DOMAIN f \cup {x} |-> IF z = x THEN y ELSE f[z]]

\* Long_Term_Memory(user_id) for a user id that is not 0: the defaults, the SQLite
\* facts, the JSON snapshot, then save()
Construct(user_id) ==
    LET d == Load(LoadFromSqlite(DefaultData, user_id), user_id)
    IN  /\ data' = With(data, Uid(user_id), d)
        /\ facts' = SavedFacts(d, user_id)
        /\ files' = With(files, Uid(user_id), Snapshot(d))
        /\ last' = [op |-> "construct", user |-> user_id, arg |-> <<>>, out |-> <<>>,
                    was |-> <<Cardinality(FactsOf(Uid(user_id))),
                              Cardinality(EpisodesOf(Uid(user_id))),
                              Uid(user_id) \in DOMAIN files>>]
        /\ UNCHANGED <<asideVars, now, episodes, nextEpisodeId, messages, nextMessageId, msg_counter,
                       recorded, cyclesOver, threadVars>>

\* the facts-only text of as_prompt
FallbackPrompt(d) ==
    Strip(Join((IF d.name \notin {None, <<>>}
                THEN << <<"IMPORTANT: The person you are talking to wants to be called \"">>
                           \o d.name \o <<"\" (not your name - YOUR name is mAIce, THEIR name is ">>
                           \o d.name \o <<").">> >>
                ELSE <<>>)
               \o << <<"Preferred language: ">> \o d.preferred_language \o <<".">> >>
               \o (IF ListFromList(d.likes) # <<>>
                   THEN << <<"The user likes: ">> \o Join(ListFromList(d.likes), <<",", " ">>)
                              \o <<".">> >>
                   ELSE <<>>)
               \o (IF ListFromList(d.dislikes) # <<>>
                   THEN << <<"The user dislikes: ">>
                              \o Join(ListFromList(d.dislikes), <<",", " ">>) \o <<".">> >>
                   ELSE <<>>),
               <<" ">>))

\* as_prompt(user_query) of the facade constructed for the user; user_query = None is
\* the empty string
AsPrompt(user_id, user_query, mv, query_embedding) ==
    /\ Uid(user_id) \in DOMAIN data
    /\ IF Strip(user_query) # <<>>
       THEN \E r \in PromptInjections(user_id, Strip(user_query), MaxPromptEpisodes, TRUE, mv,
                                      query_embedding) :
               /\ UsesLeft(r.picked)
               /\ episodes' = MarkUsed(episodes, r.picked)
               /\ last' = [op |-> "as_prompt", user |-> user_id, arg |-> user_query,
                           out |-> r.prompt, was |-> r.picked]
       ELSE /\ UNCHANGED episodes
            /\ last' = [op |-> "as_prompt", user |-> user_id, arg |-> user_query,
                        out |-> FallbackPrompt(data[Uid(user_id)]), was |-> <<>>]
    /\ UNCHANGED <<asideVars, now, facts, nextEpisodeId, messages, nextMessageId, msg_counter, recorded,
                   cyclesOver, facadeVars, threadVars>>

-----------------------------------------------------------------------------
(* The facade on its two threads: record_message runs on the event loop,        *)
(* maybe_extract on a worker thread of asyncio.to_thread. add_message writes the *)
(* counter outside the lock of the store, so a step of a worker may fall between *)
(* its read of the counter and its write.                                        *)

\* the event-loop thread is not inside add_message
NoRead == [uid |-> 0, count |-> 0]

\* a worker thread that runs no maybe_extract
Idle == [pc |-> "idle", user |-> 0]

\* record_message -> add_message(role, content) up to its read of the counter: the
\* row is inserted under the lock, then self._msg_counter.get(uid, 0) is evaluated
RecordMessageBegin(user_id, role, content) ==
    /\ reading = NoRead
    /\ IF redact(Strip(content)) = <<>>
       THEN UNCHANGED <<messages, nextMessageId, reading>>
       ELSE /\ messages' = messages \cup {MessageRow(nextMessageId, user_id, role, content, 0)}
            /\ nextMessageId' = nextMessageId + 1
            /\ reading' = [uid |-> Uid(user_id), count |-> CounterOf(Uid(user_id))]
    /\ last' = [op |-> "record_message", user |-> user_id, arg |-> content, out |-> <<>>,
                was |-> Cardinality(MessagesOf(Uid(user_id)))]
    /\ UNCHANGED <<asideVars, now, facts, episodes, nextEpisodeId, msg_counter, recorded, cyclesOver,
                   facadeVars, workers>>

\* the rest of add_message: the counter takes the count that was read, plus one
RecordMessageEnd ==
    /\ reading # NoRead
    /\ msg_counter' = CounterWrite(msg_counter, reading.uid, reading.count)
    /\ recorded' = [recorded EXCEPT ![reading.uid] = @ + 1]
    /\ reading' = NoRead
    /\ UNCHANGED <<asideVars, now, facts, episodes, nextEpisodeId, messages, nextMessageId, cyclesOver,
                   facadeVars, workers, last>>

\* the cycles in a row that ended above what prune keeps, after one more ended
CyclesOverAfter(user_id, eRows, mRows) ==
    [cyclesOver EXCEPT ![user_id] =
        IF \/ Cardinality(RowsOf(mRows, Uid(user_id))) > KeepMessages
           \/ Cardinality(RowsOf(eRows, Uid(user_id))) > KeepEpisodes
        THEN Min(@ + 1, 2) ELSE 0]

\* maybe_extract on worker w up to the call of ask_llama_fn: should_extract, then
\* extract_and_store reads the window; with no message it returns at once and the
\* counter is reset
MaybeExtractBegin(w, user_id) ==
    /\ workers[w] = Idle
    /\ IF ~should_extract(user_id, ExtractEvery)
       THEN /\ UNCHANGED <<msg_counter, recorded, cyclesOver, workers>>
            /\ last' = [op |-> "maybe_extract", user |-> user_id, arg |-> <<>>,
                        out |-> "not due", was |-> CounterOf(Uid(user_id))]
       ELSE IF NoRecentMessages(user_id, ExtractWindow)
       THEN /\ msg_counter' = CounterAfterReset(msg_counter, Uid(user_id))
            /\ recorded' = [recorded EXCEPT ![user_id] = 0]
            /\ cyclesOver' = CyclesOverAfter(user_id, episodes, messages)
            /\ UNCHANGED workers
            /\ last' = [op |-> "maybe_extract", user |-> user_id, arg |-> <<>>,
                        out |-> "no messages", was |-> CounterOf(Uid(user_id))]
       ELSE /\ workers' = [workers EXCEPT ![w] = [pc |-> "llm", user |-> user_id]]
            /\ UNCHANGED <<msg_counter, recorded, cyclesOver>>
            /\ last' = [op |-> "maybe_extract", user |-> user_id, arg |-> <<>>,
                        out |-> "calls llm", was |-> CounterOf(Uid(user_id))]
    /\ UNCHANGED <<asideVars, now, facts, episodes, nextEpisodeId, messages, nextMessageId,
                   facadeVars, reading>>

\* maybe_extract on worker w from the answer of ask_llama_fn on: the rest of
\* extract_and_store, then reset_extract_counter unless the call raised
MaybeExtractEnd(w, llm, embeddings) ==
    /\ workers[w].pc = "llm"
    /\ ExtractCommit(workers[w].user, llm, embeddings)
    /\ IF llm.kind = "raises"
       THEN UNCHANGED <<msg_counter, recorded>>
       ELSE /\ msg_counter' = CounterAfterReset(msg_counter, Uid(workers[w].user))
            /\ recorded' = [recorded EXCEPT ![workers[w].user] = 0]
    /\ cyclesOver' = CyclesOverAfter(workers[w].user, episodes', messages')
    /\ last' = [op |-> "maybe_extract", user |-> workers[w].user, arg |-> llm,
                out |-> IF llm.kind = "object" THEN "processed" ELSE llm.kind,
                was |-> <<Cardinality(EpisodesOf(Uid(workers[w].user))),
                          Cardinality(MessagesOf(Uid(workers[w].user)))>>]
    /\ workers' = [workers EXCEPT ![w] = Idle]
    /\ UNCHANGED <<asideVars, now, nextMessageId, facadeVars, reading>>

-----------------------------------------------------------------------------
(* The lock of the store. A call of a method of SQLiteMemory is the sequence of  *)
(* its steps on self._lock and on self.conn: "acquire" and "release" are the     *)
(* entry and the exit of `with self._lock`, "execute", "commit" and "fetch" are  *)
(* the statements on the connection. A thread runs one call at a time.           *)

\* the event-loop thread and the thread of asyncio.to_thread that runs an extraction
StoreThreads == {"loop", "worker"}

Statements == {"execute", "commit", "fetch"}

\* a variant that runs the statements without taking the lock
Unlocked(stmts) == stmts

\* with self._lock: <stmts>
Locked(stmts) == <<"acquire">> \o stmts \o <<"release">>

\* cur.execute(INSERT / UPDATE ...); self.conn.commit()
WriteSection == Locked(<<"execute", "commit">>)

\* cur.execute(SELECT ...); cur.fetchall()
ReadSection == Locked(<<"execute", "fetch">>)

\* prune: the two DELETE statements and the commit
PruneSection == Locked(<<"execute", "execute", "commit">>)

\* the usage update of a retrieval: one UPDATE per picked episode, then the commit
UsageSections == {Locked(<<"execute", "commit">>), Locked(<<"execute", "execute", "commit">>)}

\* retrieve_relevant: nothing for a query without words, else the candidate fetch
\* and, when episodes were picked, the usage update
RetrieveRelevantSteps == {<<>>, ReadSection} \cup {ReadSection \o u : u \in UsageSections}

\* retrieve_relevant_vector: nothing for an empty query; the lexical call when the
\* query has no embedding; else the fetch of the embedded rows, followed by the
\* lexical call (no row, nothing similar) or by the usage update
RetrieveRelevantVectorSteps ==
    RetrieveRelevantSteps
    \cup {ReadSection \o p : p \in RetrieveRelevantSteps}
    \cup {ReadSection \o u : u \in UsageSections}

\* extract_and_store: get_recent_messages; then, for an answer that parsed to a
\* dict, an upsert_fact or add_episode per stored item and prune
ExtractAndStoreSteps ==
    {ReadSection}
    \cup {ReadSection \o items \o PruneSection :
             items \in {<<>>, WriteSection, WriteSection \o WriteSection}}

\* the step sequences a call of the method may run through
StoreSteps(method) ==
    CASE method \in {"upsert_fact", "add_episode", "add_message"} -> {<<>>, WriteSection}
      [] method \in {"get_facts", "get_recent_messages"} -> {ReadSection}
      [] method = "prune" -> {PruneSection}
      [] method = "retrieve_relevant" -> RetrieveRelevantSteps
      [] method = "retrieve_relevant_vector" -> RetrieveRelevantVectorSteps
      [] method = "extract_and_store" -> ExtractAndStoreSteps
      [] method = "build_prompt_injection" ->
            {r \o ReadSection : r \in RetrieveRelevantVectorSteps}

StoreMethods ==
    {"upsert_fact", "add_episode", "add_message", "get_facts", "get_recent_messages",
     "prune", "retrieve_relevant", "retrieve_relevant_vector", "extract_and_store",
     "build_prompt_injection"}

\* a thread outside the store
NoStoreCall == [method |-> "", steps |-> <<>>, at |-> 0]

\* threading.Lock() unlocked and no call running
ConnIdle == [lock |-> "", calls |-> [t \in StoreThreads |-> NoStoreCall]]

\* the step the call of thread t takes next ("" when it has none left)
NextStep(t) ==
    LET c == conn.calls[t]
    IN  IF c.at < Len(c.steps) THEN c.steps[c.at + 1] ELSE ""

Advance(t) == [conn.calls EXCEPT ![t].at = @ + 1]

\* thread t enters a method of the store
StoreCall(t, method, steps) ==
    /\ conn.calls[t] = NoStoreCall
    /\ conn' = [conn EXCEPT !.calls[t] = [method |-> method, steps |-> steps, at |-> 0]]
    /\ UNCHANGED <<now, facts, episodes, nextEpisodeId, messages, nextMessageId, msg_counter,
                   recorded, cyclesOver, facadeVars, threadVars, last, embed, burst, mq, migration>>

\* self._lock.acquire(): blocks while the lock is held, by whichever thread
StoreAcquire(t) ==
    /\ NextStep(t) = "acquire"
    /\ conn.lock = ""
    /\ conn' = [lock |-> t, calls |-> Advance(t)]
    /\ UNCHANGED <<now, facts, episodes, nextEpisodeId, messages, nextMessageId, msg_counter,
                   recorded, cyclesOver, facadeVars, threadVars, last, embed, burst, mq, migration>>

\* a statement on self.conn: the connection was opened with check_same_thread=False
\* and lets any thread in
StoreStatement(t) ==
    /\ NextStep(t) \in Statements
    /\ conn' = [conn EXCEPT !.calls = Advance(t)]
    /\ UNCHANGED <<now, facts, episodes, nextEpisodeId, messages, nextMessageId, msg_counter,
                   recorded, cyclesOver, facadeVars, threadVars, last, embed, burst, mq, migration>>

\* self._lock.release()
StoreRelease(t) ==
    /\ NextStep(t) = "release"
    /\ conn' = [lock |-> "", calls |-> Advance(t)]
    /\ UNCHANGED <<now, facts, episodes, nextEpisodeId, messages, nextMessageId, msg_counter,
                   recorded, cyclesOver, facadeVars, threadVars, last, embed, burst, mq, migration>>

\* the method returns
StoreReturn(t) ==
    /\ conn.calls[t] # NoStoreCall
    /\ NextStep(t) = ""
    /\ conn' = [conn EXCEPT !.calls[t] = NoStoreCall]
    /\ UNCHANGED <<now, facts, episodes, nextEpisodeId, messages, nextMessageId, msg_counter,
                   recorded, cyclesOver, facadeVars, threadVars, last, embed, burst, mq, migration>>

-----------------------------------------------------------------------------
(* The embedding cache of memory_vector *)

CACHE_MAX_SIZE == 100
KeyPrefixLen == 200
MaxEmbedCalls == 3      \* calls of embed_text

\* _cache_key, without the model name: every caller passes the default model
cache_key(text) == Lower(Strip(Take(text, KeyPrefixLen)))

\* _EMBED_CACHE is a dict: its entries in the order in which their keys were inserted
CacheKeys(cache) == {cache[i].key : i \in 1..Len(cache)}

CacheGet(cache, key) == cache[CHOOSE i \in 1..Len(cache) : cache[i].key = key].vec

\* _EMBED_CACHE[key] = embedding: a key the dict holds keeps its place
CachePut(cache, key, vec) ==
    IF key \in CacheKeys(cache)
    THEN [i \in 1..Len(cache) |-> IF cache[i].key = key THEN [key |-> key, vec |-> vec] ELSE cache[i]]
    ELSE Append(cache, [key |-> key, vec |-> vec])

\* del _EMBED_CACHE[key]
CacheDel(cache, key) == SelectSeq(cache, LAMBDA e : e.key # key)

\* What requests.post and response.json() did: the request timed out, the status
\* was not 200, the body was not JSON or not a JSON object, the object had no
\* "embedding" or one that is not a list, or it had the list `items`
ServiceAnswer(kind, items) == [kind |-> kind, items |-> items]

\* the value embed_text accepts from the answer: a non-empty list, whatever it holds
EmbeddingOf(answer) == IF answer.kind = "list" THEN answer.items ELSE NoEmbedding

\* a call of embed_text on a thread: where it is, its key, the list it got, the
\* key it read as the oldest, and whether it called the service
NoEmbedCall == [pc |-> "idle", key |-> <<>>, vec |-> NoEmbedding, oldest |-> <<>>, posted |-> FALSE]

NoEmbedResult == [key |-> <<>>, result |-> NoEmbedding, how |-> "", posted |-> FALSE]

EmbedReturns(t, result, how) ==
    [embed EXCEPT !.calls[t] = NoEmbedCall,
                  !.out[t] = [key |-> embed.calls[t].key, result |-> result, how |-> how,
                              posted |-> embed.calls[t].posted]]

storeVars == <<now, facts, episodes, nextEpisodeId, messages, nextMessageId, msg_counter, recorded, cyclesOver, facadeVars, threadVars, last, conn, burst, mq, migration>>

\* embed_text(text) up to `key in _EMBED_CACHE`
EmbedCall(t, text) ==
    /\ embed.calls[t].pc = "idle"
    /\ embed.started < MaxEmbedCalls
    /\ LET stripped == Strip(text)
           key == cache_key(stripped)
           call == [NoEmbedCall EXCEPT !.key = key]
       IN  embed' = IF stripped = <<>>
                    THEN [EmbedReturns(t, NoEmbedding, "empty") EXCEPT !.started = @ + 1]
                    ELSE [embed EXCEPT !.started = @ + 1,
                                       !.calls[t] = [call EXCEPT !.pc = IF key \in CacheKeys(embed.cache)
                                                                         THEN "hit" ELSE "post"]]
    /\ UNCHANGED storeVars

\* return _EMBED_CACHE[key], outside the try block
EmbedHit(t) ==
    /\ embed.calls[t].pc = "hit"
    /\ embed' = IF embed.calls[t].key \in CacheKeys(embed.cache)
                THEN EmbedReturns(t, CacheGet(embed.cache, embed.calls[t].key), "hit")
                ELSE EmbedReturns(t, NoEmbedding, "raised")
    /\ UNCHANGED storeVars

\* requests.post ... embedding = data.get("embedding")
EmbedPost(t, answer) ==
    /\ embed.calls[t].pc = "post"
    /\ embed' = IF EmbeddingOf(answer) = NoEmbedding
                THEN [EmbedReturns(t, NoEmbedding, "failed") EXCEPT !.out[t].posted = TRUE]
                ELSE [embed EXCEPT !.calls[t].pc = "insert", !.calls[t].posted = TRUE,
                                   !.calls[t].vec = EmbeddingOf(answer)]
    /\ UNCHANGED storeVars

\* _EMBED_CACHE[key] = embedding
EmbedInsert(t) ==
    /\ embed.calls[t].pc = "insert"
    /\ embed' = [embed EXCEPT !.cache = CachePut(@, embed.calls[t].key, embed.calls[t].vec),
                              !.calls[t].pc = "len"]
    /\ UNCHANGED storeVars

\* if len(_EMBED_CACHE) > _CACHE_MAX_SIZE
EmbedLen(t) ==
    /\ embed.calls[t].pc = "len"
    /\ embed' = IF Len(embed.cache) > CACHE_MAX_SIZE
                THEN [embed EXCEPT !.calls[t].pc = "oldest"]
                ELSE EmbedReturns(t, embed.calls[t].vec, "inserted")
    /\ UNCHANGED storeVars

\* oldest_key = next(iter(_EMBED_CACHE))
EmbedOldest(t) ==
    /\ embed.calls[t].pc = "oldest"
    /\ embed' = IF embed.cache = <<>>
                THEN EmbedReturns(t, NoEmbedding, "failed")
                ELSE [embed EXCEPT !.calls[t].pc = "del", !.calls[t].oldest = embed.cache[1].key]
    /\ UNCHANGED storeVars

\* del _EMBED_CACHE[oldest_key]: a KeyError is caught by the except clause
EmbedDel(t) ==
    /\ embed.calls[t].pc = "del"
    /\ embed' = IF embed.calls[t].oldest \in CacheKeys(embed.cache)
                THEN [EmbedReturns(t, embed.calls[t].vec, "evicted")
                         EXCEPT !.cache = CacheDel(@, embed.calls[t].oldest)]
                ELSE EmbedReturns(t, NoEmbedding, "failed")
    /\ UNCHANGED storeVars

-----------------------------------------------------------------------------
(* add_episode with embed=True *)

\* struct.pack(f"{n}f", *embedding) takes numbers and raises struct.error otherwise
Packable(embedding) == \A i \in 1..Len(embedding) : embedding[i].kind \in {"num", "nan"}

Floats(embedding) == [i \in 1..Len(embedding) |-> embedding[i].val]

\* embed_text(text) run from its first statement to its return by one thread: the
\* cache it leaves, what it returns, and whether it called the service
EmbedText(cache, text, answer) ==
    LET stripped == Strip(text)
        key == cache_key(stripped)
        got == EmbeddingOf(answer)
        put == CachePut(cache, key, got)
    IN  IF stripped = <<>> THEN [cache |-> cache, result |-> NoEmbedding, posted |-> FALSE]
        ELSE IF key \in CacheKeys(cache)
        THEN [cache |-> cache, result |-> CacheGet(cache, key), posted |-> FALSE]
        ELSE IF got = NoEmbedding THEN [cache |-> cache, result |-> NoEmbedding, posted |-> TRUE]
        ELSE [cache |-> IF Len(put) > CACHE_MAX_SIZE THEN CacheDel(put, put[1].key) ELSE put,
              result |-> got, posted |-> TRUE]

\* add_episode(user_id, text, tags, importance, ts, embed=True); mv is whether
\* _get_vector_module() found the module, answer what the service does when asked
AddEpisodeEmbed(user_id, text, tags, importance, ts, mv, answer) ==
    /\ nextEpisodeId <= MaxEpisodes
    /\ LET stripped == Strip(text)
           e == IF mv THEN EmbedText(embed.cache, Strip(stripped \o <<" ">> \o TagsStr(tags)), answer)
                ELSE [cache |-> embed.cache, result |-> NoEmbedding, posted |-> FALSE]
           raises == e.result # NoEmbedding /\ ~Packable(e.result)
       IN  /\ IF stripped = <<>> THEN UNCHANGED <<episodes, nextEpisodeId, embed>>
              ELSE /\ embed' = [embed EXCEPT !.cache = e.cache]
                   /\ IF raises THEN UNCHANGED <<episodes, nextEpisodeId>>
                      ELSE /\ episodes' = episodes \cup
                                  {EpisodeRow(nextEpisodeId, user_id, text, tags, importance, ts,
                                              Floats(e.result))}
                           /\ nextEpisodeId' = nextEpisodeId + 1
           /\ last' = [op |-> "add_episode", user |-> user_id, arg |-> <<text, importance, answer>>,
                       out |-> IF stripped = <<>> THEN "dropped"
                               ELSE IF raises THEN "raised" ELSE "stored",
                       was |-> stripped # <<>> /\ e.posted]
    /\ UNCHANGED <<now, facts, messages, nextMessageId, msg_counter, recorded, cyclesOver,
                   facadeVars, threadVars, conn, burst, mq, migration>>

-----------------------------------------------------------------------------
(* utils.burst: the burst buffer and its debounce workers *)

\* BurstBuffer(window_s=10.0, max_lines=3): the limits of the buffer; the module's
\* own instance has max_lines = 6
max_lines == 3
max_chars == 900
MaxEnqueues == 3        \* calls of enqueue

BurstKeys == {<<1, 1>>, <<1, 2>>}    \* (channel id, author id)

NoTask == 0

\* the dict enqueue makes for a key that has none; a message is known by its number
NewBurst(message) == [lines |-> <<>>, last_message |-> message, event |-> FALSE, task |-> NoTask]

\* the append at the wrong end
PrependLine(lines, text) == <<text>> \o lines

\* state["lines"].append(text)
AppendLine(lines, text) == Append(lines, text)

\* "\n".join(state["lines"]).strip()
Combined(lines) == Strip(Join(lines, <<"\n">>))

\* if len(combined) > self.max_chars: combined = combined[:self.max_chars].strip()
Truncated(combined) == IF Len(combined) > max_chars THEN Strip(Take(combined, max_chars)) ELSE combined

\* no cap: the worker always waits
CapsNever(lines) == FALSE

\* len(state["lines"]) >= self.max_lines or len(combined_now) >= self.max_chars
CapsReached(lines) == Len(lines) >= max_lines \/ Len(Combined(lines)) >= max_chars

\* a task that is never taken for missing or done: no worker is started
TaskNeverDone(tasks, id) == FALSE

\* task is None or task.done()
TaskDone(tasks, id) == id = NoTask \/ tasks[id].pc = "done"

\* self._bursts.pop(key)
Without(f, k) == [x \in DOMAIN f \ {k} |-> f[x]]

nonBurstVars == <<now, facts, episodes, nextEpisodeId, messages, nextMessageId, msg_counter, recorded, cyclesOver, facadeVars, threadVars, last, conn, embed, mq, migration>>

\* enqueue(message, user_text) for the key of the message; the lock of the key is
\* free whenever a task asks for it, as no task awaits while holding it
Enqueue(key, user_text) ==
    /\ burst.count < MaxEnqueues
    /\ LET message == burst.count + 1
           text == Strip(user_text)
           state == IF key \in DOMAIN burst.bursts THEN burst.bursts[key] ELSE NewBurst(message)
           filled == [state EXCEPT !.lines = IF text # <<>> THEN AppendLine(@, text) ELSE @,
                                   !.last_message = message,
                                   !.event = TRUE]
           start == TaskDone(burst.tasks, filled.task)
       IN  burst' = [burst EXCEPT
                        !.count = message,
                        !.received[key] = IF text # <<>> THEN Append(@, text) ELSE @,
                        !.tasks = IF start THEN Append(@, [key |-> key, pc |-> "ready"]) ELSE @,
                        !.bursts = With(@, key, IF start THEN [filled EXCEPT !.task = Len(burst.tasks) + 1]
                                                ELSE filled)]
    /\ UNCHANGED nonBurstVars

\* the worker from `finalized = await self._finalize(key)` to the call of the
\* handler, in the buffer b
Finish(b, id, cause) ==
    LET key == b.tasks[id].key
        state == b.bursts[key]
        combined == Truncated(Combined(state.lines))
        popped == [b EXCEPT !.bursts = Without(@, key)]
    IN  IF key \notin DOMAIN b.bursts THEN [b EXCEPT !.tasks[id].pc = "done"]
        ELSE IF combined = <<>> \/ ~b.handler THEN [popped EXCEPT !.tasks[id].pc = "done"]
        ELSE [popped EXCEPT !.tasks[id].pc = "handling",
                            !.calls = Append(@, [key |-> key, message |-> state.last_message,
                                                 combined_text |-> combined, lines |-> state.lines,
                                                 cause |-> cause])]

\* the worker runs its loop from the top: as a new task, or when the event it
\* waits for has been set
WorkerRun(id) ==
    /\ id \in 1..Len(burst.tasks)
    /\ LET key == burst.tasks[id].key
           cleared == [burst EXCEPT !.bursts[key].event = FALSE]
       IN  /\ \/ burst.tasks[id].pc = "ready"
              \/ /\ burst.tasks[id].pc = "waiting"
                 /\ key \in DOMAIN burst.bursts
                 /\ burst.bursts[key].event
           /\ burst' = IF key \notin DOMAIN burst.bursts THEN [burst EXCEPT !.tasks[id].pc = "done"]
                       ELSE IF CapsReached(burst.bursts[key].lines) THEN Finish(cleared, id, "caps")
                       ELSE [cleared EXCEPT !.tasks[id].pc = "waiting"]
    /\ UNCHANGED nonBurstVars

\* asyncio.wait_for raises TimeoutError: the window is over
WorkerTimeout(id) ==
    /\ id \in 1..Len(burst.tasks)
    /\ burst.tasks[id].pc = "waiting"
    /\ burst' = Finish(burst, id, "timeout")
    /\ UNCHANGED nonBurstVars

\* the handler returns and the worker with it
HandlerReturn(id) ==
    /\ id \in 1..Len(burst.tasks)
    /\ burst.tasks[id].pc = "handling"
    /\ burst' = [burst EXCEPT !.tasks[id].pc = "done"]
    /\ UNCHANGED nonBurstVars

-----------------------------------------------------------------------------
(* message_queue: the priority queue in front of the conversation handler *)

\* MessageQueue(max_size): the capacity given to asyncio.PriorityQueue (positive; the
\* module's own instance has 100)
max_size == 2
MaxQueued == 4          \* calls of enqueue
MaxStarts == 2          \* calls of start_worker

\* class Priority
CRITICAL == 0
HIGH == 1
NORMAL == 2
LOW == 3

\* trust scores in hundredths
TrustHigh == 70
TrustNormal == 40

\* enqueue_with_trust: the priority of a trust score
PriorityOfTrust(trust_score) ==
    IF trust_score >= TrustHigh THEN HIGH
    ELSE IF trust_score >= TrustNormal THEN NORMAL
    ELSE LOW

\* QueueItem(priority, timestamp, message): the dataclass orders its instances by
\* (priority, timestamp); message does not take part in the comparison
QueueItem(priority, timestamp, message) ==
    [priority |-> priority, timestamp |-> timestamp, message |-> message]

ItemLess(a, b) ==
    a.priority < b.priority \/ (a.priority = b.priority /\ a.timestamp < b.timestamp)

\* heappop: an item that no queued item is smaller than
Smallest(queue) == {i \in queue : \A j \in queue : ~ItemLess(j, i)}

\* a queue that never refuses
NeverFull(queue) == FALSE

\* asyncio.Queue.full() for a positive maxsize
Full(queue) == Cardinality(queue) >= max_size

\* a flag that is never seen set
NeverRunning(running) == FALSE

\* start_worker: `if self._running: return`
AlreadyRunning(running) == running

NoItem == [priority |-> -1, timestamp |-> -1, message |-> 0]

\* MessageQueue(): nothing queued, no handler, no worker task; time is the clock read
\* by enqueue, out what the last call returned, handled the items given to the handler
QueueEmpty ==
    [queue |-> {}, handler |-> FALSE, running |-> FALSE, processing |-> FALSE,
     processed_count |-> 0, dropped_count |-> 0, tasks |-> <<>>, time |-> 0,
     enqueued |-> 0, starts |-> 0, out |-> "", handled |-> <<>>, raised |-> 0]

mqVars == <<now, facts, episodes, nextEpisodeId, messages, nextMessageId, msg_counter, recorded, cyclesOver, facadeVars, threadVars, last, conn, embed, burst, migration>>

\* enqueue(message, user_text, priority): dt is the time that passed since the last
\* call; put_nowait raises QueueFull when the queue is full
MqEnqueue(priority, dt) ==
    /\ mq.enqueued < MaxQueued
    /\ LET item == QueueItem(priority, mq.time + dt, mq.enqueued + 1)
       IN  mq' = IF Full(mq.queue)
                 THEN [mq EXCEPT !.dropped_count = @ + 1, !.out = "False",
                                 !.time = @ + dt, !.enqueued = @ + 1]
                 ELSE [mq EXCEPT !.queue = @ \cup {item}, !.out = "True",
                                 !.time = @ + dt, !.enqueued = @ + 1]
    /\ UNCHANGED mqVars

\* enqueue_with_trust(message, user_text, trust_score)
MqEnqueueWithTrust(trust_score, dt) == MqEnqueue(PriorityOfTrust(trust_score), dt)

\* start_worker(handler): handler is whether one is passed
MqStartWorker(handler) ==
    /\ mq.starts < MaxStarts
    /\ LET set == handler \/ mq.handler
       IN  mq' = IF ~set THEN [mq EXCEPT !.starts = @ + 1, !.out = "ValueError"]
                 ELSE IF AlreadyRunning(mq.running)
                      THEN [mq EXCEPT !.handler = TRUE, !.starts = @ + 1, !.out = "None"]
                 ELSE [mq EXCEPT !.handler = TRUE, !.running = TRUE, !.starts = @ + 1,
                                 !.out = "None",
                                 !.tasks = Append(@, [pc |-> "get", item |-> NoItem])]
    /\ UNCHANGED mqVars

\* _worker_loop: `while self._running` and queue.get() returning an item
MqGet(w) ==
    /\ mq.tasks[w].pc = "get"
    /\ mq.running
    /\ \E item \in Smallest(mq.queue) :
           mq' = [mq EXCEPT !.queue = @ \ {item}, !.tasks[w] = [pc |-> "got", item |-> item]]
    /\ UNCHANGED mqVars

\* _worker_loop: wait_for times out on an empty queue, `continue`
MqGetTimeout(w) ==
    /\ mq.tasks[w].pc = "get"
    /\ mq.running
    /\ mq.queue = {}
    /\ UNCHANGED vars

\* _worker_loop: _processing = True and the call of the handler
MqHandlerCall(w) ==
    /\ mq.tasks[w].pc = "got"
    /\ mq' = [mq EXCEPT !.processing = TRUE, !.tasks[w].pc = "handler",
                        !.handled = Append(@, mq.tasks[w].item.message)]
    /\ UNCHANGED mqVars

\* the task after `except Exception` and `finally`: back at the head of the loop
AfterRaise(task) == [pc |-> "get", item |-> NoItem]

\* _worker_loop: the handler returns or raises an Exception; finally
MqHandlerEnd(w, outcome) ==
    /\ mq.tasks[w].pc = "handler"
    /\ mq' = IF outcome = "returns"
             THEN [mq EXCEPT !.processed_count = @ + 1, !.processing = FALSE,
                             !.tasks[w] = [pc |-> "get", item |-> NoItem]]
             ELSE [mq EXCEPT !.processing = FALSE, !.raised = @ + 1,
                             !.tasks[w] = AfterRaise(mq.tasks[w])]
    /\ UNCHANGED mqVars

-----------------------------------------------------------------------------
(* migrate_embeddings: the one-time backfill of episode embeddings *)

BATCH_SIZE == 50
MaxFailed == 2          \* the failed counter of migrate() is followed up to here

\* before migrate() is called
NotMigrating ==
    [pc |-> "idle", rows |-> <<>>, updates |-> {}, total |-> 0, processed |-> 0, failed |-> 0]

\* WHERE embedding IS NULL
Unembedded(rows) == {r \in rows : r.embedding = NoEmbedding}

\* SELECT without ORDER BY: the rows in any order
AnyOrders(S) ==
    {o \in [1..Cardinality(S) -> S] : \A i, j \in 1..Cardinality(S) : o[i] = o[j] => i = j}

\* SELECT id, text, tags FROM episodes WHERE embedding IS NULL LIMIT ?
FetchBatch(rows, limit) == {Take(o, limit) : o \in AnyOrders(Unembedded(rows))}

\* UPDATE episodes SET embedding = ? WHERE id = ?, for the rows of one batch, made
\* durable by conn.commit()
Commit(rows, updates) ==
    {IF \E u \in updates : u.id = r.id
     THEN [r EXCEPT !.embedding = (CHOOSE u \in updates : u.id = r.id).blob]
     ELSE r : r \in rows}

\* after the last row of a batch: commit and `while True` again
NextBatch(rest) == IF rest = <<>> THEN "fetch" ELSE "rows"

migrationVars == <<now, facts, nextEpisodeId, messages, nextMessageId, msg_counter, recorded, cyclesOver, facadeVars, threadVars, last, conn, burst, mq>>

\* migrate() up to its loop: available is what is_ollama_available() answers
MigrateStart(available) ==
    /\ migration.pc = "idle"
    /\ LET total == Cardinality(Unembedded(episodes))
       IN  migration' = IF ~available THEN [migration EXCEPT !.pc = "exit"]
                        ELSE IF total = 0 THEN [migration EXCEPT !.pc = "done"]
                        ELSE [migration EXCEPT !.pc = "fetch", !.total = total]
    /\ UNCHANGED <<migrationVars, episodes, embed>>

\* the SELECT at the head of the loop and `if not rows: break`
MigrateFetch ==
    /\ migration.pc = "fetch"
    /\ \E rows \in FetchBatch(episodes, BATCH_SIZE) :
           migration' = [migration EXCEPT !.rows = rows,
                                          !.pc = IF rows = <<>> THEN "done" ELSE "rows"]
    /\ UNCHANGED <<migrationVars, episodes, embed>>

\* one turn of `for row in rows`: answer is what the embedding service does when
\* embed_text asks it; after the last row of the batch, conn.commit(); an exception
\* of embedding_to_blob ends the run with the batch uncommitted
MigrateRow(answer) ==
    /\ migration.pc = "rows"
    /\ \E row \in {Head(migration.rows)}, rest \in {Tail(migration.rows)} :
       \E e \in {EmbedText(embed.cache, Strip(row.text \o <<" ">> \o row.tags), answer)} :
           /\ embed' = [embed EXCEPT !.cache = e.cache]
           /\ IF e.result = NoEmbedding
              THEN \* failed += 1
                   /\ migration' = [migration EXCEPT !.rows = rest, !.pc = NextBatch(rest),
                                                     !.updates = IF rest = <<>> THEN {} ELSE @,
                                                     !.failed = Min(@ + 1, MaxFailed)]
                   /\ episodes' = IF rest = <<>> THEN Commit(episodes, migration.updates)
                                  ELSE episodes
              ELSE IF ~Packable(e.result)
              THEN /\ migration' = [migration EXCEPT !.pc = "raised", !.updates = {}]
                   /\ UNCHANGED episodes
              ELSE \* UPDATE ...; processed += 1
                   \E updates \in {migration.updates \cup
                                      {[id |-> row.id,
                                        blob |-> embedding_to_blob(Floats(e.result))]}} :
                       /\ migration' = [migration EXCEPT !.rows = rest, !.pc = NextBatch(rest),
                                                         !.updates = IF rest = <<>> THEN {}
                                                                     ELSE updates,
                                                         !.processed = @ + 1]
                       /\ episodes' = IF rest = <<>> THEN Commit(episodes, updates)
                                      ELSE episodes
    /\ UNCHANGED migrationVars

-----------------------------------------------------------------------------
(* Outside the tables *)

EmbedEmpty ==
    [cache |-> <<>>, started |-> 0, calls |-> [t \in StoreThreads |-> NoEmbedCall],
     out |-> [t \in StoreThreads |-> NoEmbedResult]]
\* BurstBuffer() after set_handler: no burst, no worker, nothing received or handed over
BurstEmpty ==
    [handler |-> TRUE, bursts |-> << >>, tasks |-> <<>>, calls |-> <<>>, count |-> 0,
     received |-> [k \in BurstKeys |-> <<>>]]

AsideInit ==
    /\ conn = ConnIdle
    /\ embed = EmbedEmpty
    /\ burst = BurstEmpty
    /\ mq = QueueEmpty
    /\ migration = NotMigrating

-----------------------------------------------------------------------------
(* The clock *)

Tick ==
    /\ now < (MaxTicks + 1) * TickSeconds
    /\ now' = now + TickSeconds
    /\ UNCHANGED <<asideVars, facts, episodes, nextEpisodeId, messages, nextMessageId, msg_counter, recorded, last,
                 cyclesOver, facadeVars, threadVars>>

-----------------------------------------------------------------------------
(* After SQLiteMemory.__init__ on a new database file *)

NoCall == [op |-> "init", user |-> 0, arg |-> <<>>, out |-> <<>>, was |-> <<>>]

Init ==
    /\ now = TickSeconds
    /\ facts = {}
    /\ episodes = {}
    /\ nextEpisodeId = 1
    /\ messages = {}
    /\ nextMessageId = 1
    /\ msg_counter = << >>
    /\ recorded = [u \in Users |-> 0]
    /\ cyclesOver = [u \in Users |-> 0]
    /\ data = << >>
    /\ files = << >>
    /\ reading = NoRead
    /\ workers = [w \in 1..MaxWorkers |-> Idle]
    /\ last = NoCall
    /\ AsideInit

-----------------------------------------------------------------------------
(* Facts specification: the callers of upsert_fact *)

FactKeys == {<<"n">>, <<" ", "N", " ">>, <<>>}
FactValues == {<<"a">>, <<"b", " ">>, <<" ">>}

NextFacts ==
    \/ Tick
    \/ \E u \in Users, k \in FactKeys, v \in FactValues : UpsertFact(u, k, v, Num(7))

SpecFacts == Init /\ [][NextFacts]_vars

\* C1: after upsert_fact(U, K, v) with a non-empty key and value, get_facts(U) maps
\* the lower-cased K to v and the table holds exactly one row for (U, K), whatever
\* value an earlier upsert_fact stored under K: a later upsert overwrites and never
\* duplicates.
C1_UpsertOverwrites ==
    (/\ last.op = "upsert_fact"
     /\ Lower(Strip(last.arg[1])) # <<>>
     /\ Strip(last.arg[2]) # <<>>)
    => LET k == Lower(Strip(last.arg[1]))
       IN  /\ k \in DOMAIN get_facts(last.user)
           /\ get_facts(last.user)[k] = Strip(last.arg[2])
           /\ Cardinality({r \in facts : r.user_id = Uid(last.user) /\ r.key = k}) = 1

\* the second upsert of a key replaced another value
C1_Witness ==
    /\ last.op = "upsert_fact"
    /\ Strip(last.arg[2]) # <<>>
    /\ last.was # {}
    /\ Strip(last.arg[2]) \notin last.was
    /\ Lower(Strip(last.arg[1])) # last.arg[1]

-----------------------------------------------------------------------------
(* Pruning specification *)

\* ts = 0 is ts=None: the row takes now_ts(); the other timestamp is a day after the
\* epoch, before now
NextPrune ==
    \/ \E u \in Users, ts \in {0, DaySeconds} :
          AddEpisode(u, <<"a", "b">>, <<>>, Num(5), ts, NoEmbedding)
    \/ \E u \in Users, ts \in {0, DaySeconds} :
          AddMessage(u, RoleUser, <<"a", "b">>, ts)
    \/ \E u \in Users, ke \in 0..2, km \in 0..1 : Prune(u, ke, km)

SpecPrune == Init /\ [][NextPrune]_vars

\* C5: prune(U, keep_episodes = N, keep_messages = M) leaves exactly min(N, count
\* before) episodes and min(M, count before) messages of U, every one of them a row
\* that was there before, and no deleted row has a newer timestamp than a kept one.
C5_PruneKeepsMostRecent ==
    [][(last'.op = "prune" /\ Prune(last'.user, last'.arg[1], last'.arg[2])) =>
         LET u == Uid(last'.user)
             n == last'.arg[1]
             m == last'.arg[2]
             eBefore == RowsOf(episodes, u)
             eAfter == RowsOf(episodes', u)
             mBefore == RowsOf(messages, u)
             mAfter == RowsOf(messages', u)
         IN  /\ Cardinality(eAfter) = Min(n, Cardinality(eBefore))
             /\ eAfter \subseteq eBefore
             /\ \A d \in eBefore \ eAfter, k \in eAfter : d.ts <= k.ts
             /\ Cardinality(mAfter) = Min(m, Cardinality(mBefore))
             /\ mAfter \subseteq mBefore
             /\ \A d \in mBefore \ mAfter, k \in mAfter : d.ts <= k.ts
      ]_vars

\* a prune deleted the row inserted last, which carried the older timestamp, and
\* kept the row inserted first
C5_Witness ==
    /\ last.op = "prune"
    /\ last.was[1] = 2
    /\ last.arg[1] = 1
    /\ \E e \in EpisodesOf(Uid(last.user)) : e.id = 1 /\ e.ts > DaySeconds
    /\ Cardinality(EpisodesOf(Uid(last.user))) = 1
    /\ nextEpisodeId = 3

-----------------------------------------------------------------------------
(* Retrieval specification *)

Vectors == {<<1, 0>>}
Queries == {<<"a", "b">>, <<"C", "D", " ", "a">>, <<"a", " ", "b">>, <<" ">>}

\* the vector module and embed_text(query): module missing, service down, two answers
EmbedOutcomes ==
    {<<FALSE, NoEmbedding>>, <<TRUE, NoEmbedding>>} \cup {<<TRUE, v>> : v \in Vectors}

NextRetrieval ==
    \/ \E u \in Users : AddEpisode(u, <<"A", "b">>, <<>>, Num(5), 0, NoEmbedding)
    \/ AddEpisode(1, <<"A", "b">>, <<>>, Num(5), 0, <<0, 1>>)
    \/ AddEpisode(1, <<"x", "x">>, << <<"C", "d">> >>, Num(5), 0, <<3, 4>>)
    \/ \E q \in Queries, limit \in 1..2 : RetrieveRelevant(1, q, limit)
    \/ RetrieveRelevant(2, <<"a", "b">>, 2)
    \/ \E q \in Queries \ {<<"a", " ", "b">>}, e \in EmbedOutcomes :
          RetrieveRelevantVector(1, q, 2, SimilarityThreshold, RecencyWeight, e[1], e[2])

SpecRetrieval == Init /\ [][NextRetrieval]_vars

\* C3: retrieve_relevant never returns an episode whose normalized tokens (text plus
\* tags) share no token with the normalized tokens of the query, and it returns no
\* episode for an empty or token-less query.
C3_LexicalGate ==
    last.op = "retrieve_relevant" =>
        /\ \A i \in 1..Len(last.out) :
              Range(NormWords(last.out[i].text \o <<" ">> \o last.out[i].tags))
                  \cap Range(NormWords(last.arg[1])) # {}
        /\ (Strip(last.arg[1]) = <<>> \/ NormWords(last.arg[1]) = <<>>) => last.out = <<>>

\* a lexical call returned an episode and left out another episode of the user, though
\* the limit had room for it
C3_Witness ==
    /\ last.op = "retrieve_relevant"
    /\ Len(last.out) = 1
    /\ last.arg[2] = 2
    /\ Cardinality(EpisodesOf(Uid(last.user))) = 2

\* C4: when the query cannot be embedded (the vector module is missing or embed_text
\* returns nothing) or no episode of the user has an embedding, retrieve_relevant_vector
\* returns a list that retrieve_relevant returns for the same user, query and limit,
\* and updates the usage counters of exactly the episodes of that list.
C4_VectorFallsBackToLexical ==
    [][(/\ last'.op = "retrieve_relevant_vector"
        /\ now' = now
        /\ \/ ~last'.arg[3]
           \/ \A e \in EpisodesOf(Uid(last'.user)) : e.embedding = NoEmbedding)
       => /\ last'.out \in LexicalResults(last'.user, last'.arg[1], last'.arg[2])
          /\ episodes' = MarkUsed(episodes, last'.out)
      ]_vars

\* a vector call without a query embedding returned an episode
C4_Witness ==
    /\ last.op = "retrieve_relevant_vector"
    /\ ~last.arg[3]
    /\ last.out # <<>>
    /\ \E e \in EpisodesOf(Uid(last.user)) : e.embedding # NoEmbedding

-----------------------------------------------------------------------------
(* Extraction specification: what the callers and the LLM may pass *)

\* a string of n characters
Long(n) == Rep("x", n)

\* confidences and importances: -0.5, 1.5, NaN, not a number
OutOfRange == {Num(-5), Num(15), NaN, NotANumber}

FactN == FactItem(<<"n">>, <<"a">>, Num(15))
FactC == FactItem(<<" ", "C", " ">>, <<"b">>, Num(-5))
FactLongest == FactItem(Long(MaxKeyLen), Long(MaxValueLen), NaN)

\* the facts the loop rejects: key too long, value too long, blank key, empty value,
\* not a dict
InvalidFacts ==
    {FactItem(Long(MaxKeyLen + 1), <<"a">>, Num(5)),
     FactItem(<<"n">>, Long(MaxValueLen + 1), Num(5)),
     FactItem(<<" ">>, <<"a">>, Num(5)),
     FactItem(<<"n">>, <<>>, Num(5)),
     NotADict}

EpisodeAb == EpisodeItem(<<"A", "b">>, JsonList(<< <<"C", "d">> >>), Num(15))
EpisodeLongest == EpisodeItem(Long(MaxTextLen), JsonNotList, Missing)

\* the episodes the loop rejects: text too long, blank text, not a dict
InvalidEpisodes ==
    {EpisodeItem(Long(MaxTextLen + 1), JsonList(<<>>), Num(5)),
     EpisodeItem(<<" ">>, JsonList(<<>>), Num(5)),
     NotADict}

\* answers of the LLM: an invalid item before, between or after valid ones
Responses ==
    {LlmNotJson, LlmObject(JsonNotList, JsonNotList),
     LlmObject(JsonList(<<FactLongest>>), JsonList(<<EpisodeLongest>>))}
    \cup {LlmObject(JsonList(<<i, FactN>>), JsonList(<<>>)) : i \in InvalidFacts}
    \cup {LlmObject(JsonList(<<FactC, i>>), JsonList(<<>>)) : i \in InvalidFacts}
    \cup {LlmObject(JsonList(<<>>), JsonList(<<i, EpisodeAb>>)) : i \in InvalidEpisodes}
    \cup {LlmObject(JsonList(<<FactN, FactItem(Long(MaxKeyLen + 1), <<"a">>, Num(5)), FactC>>),
                    JsonList(<<EpisodeAb, NotADict, EpisodeLongest>>))}

NextExtract ==
    \/ \E c \in OutOfRange : UpsertFact(1, <<"n">>, <<"b">>, c)
    \/ \E i \in OutOfRange : AddEpisode(1, <<"a", "b">>, <<>>, i, 0, NoEmbedding)
    \/ AddMessage(1, RoleUser, <<"a", "b">>, 0)
    \/ \E llm \in Responses :
          ExtractAndStore(1, llm, ExtractWindow, <<NoEmbedding, NoEmbedding, NoEmbedding>>)

SpecExtract == Init /\ [][NextExtract]_vars

InUnitInterval(x) == x.kind = "num" /\ 0 <= x.val /\ x.val <= One

\* C2: in every reachable state every stored fact has a confidence in [0, 1] and
\* every stored episode an importance in [0, 1], whatever was passed to upsert_fact
\* and add_episode or returned by the LLM to extract_and_store.
C2_StoredValuesInUnitInterval ==
    /\ \A r \in facts : InUnitInterval(r.confidence)
    /\ \A e \in episodes : InUnitInterval(e.importance)

\* an extraction was given a confidence of 1.5 and an importance that is no number,
\* after add_episode was given an importance of -0.5
C2_Witness ==
    /\ last.op = "extract_and_store"
    /\ last.out = "processed"
    /\ last.arg = LlmObject(JsonList(<<FactLongest>>), JsonList(<<EpisodeLongest>>))
    /\ \E r \in facts : r.key = Long(MaxKeyLen) /\ r.confidence = Num(One)
    /\ \E e \in episodes : e.text = Long(MaxTextLen) /\ e.importance = Num(DefaultImportance)
    /\ \E e \in episodes : e.importance = Num(0)
    /\ \E r \in facts : r.key = <<"n">> /\ r.confidence = Num(One)

\* the items of a JSON value the loops of extract_and_store look at
Considered(json, cap) == IF json.list THEN Take(json.items, cap) ELSE <<>>

\* C6: extract_and_store validates each item on its own. Of the first ten facts of
\* the response, every fact that is a dict with a non-blank key of at most 48
\* characters and a non-blank value of at most 240 characters is in the table after
\* the call (under its lower-cased key, with the value of the last such fact for that
\* key), and no fact row was written that does not come from such an item; of the
\* first three episodes, every episode that is a dict with a non-blank text of at
\* most 280 characters was inserted, in order, and nothing else was.
C6_ExtractionValidatesPerItem ==
    [][(last'.op = "extract_and_store" /\ last'.out = "processed" /\ now' = now) =>
         LET u == Uid(last'.user)
             fs == Considered(last'.arg.facts, 10)
             es == Considered(last'.arg.episodes, 3)
             GoodFact(f) == /\ f.dict
                            /\ Strip(f.key) # <<>> /\ Len(Strip(f.key)) <= 48
                            /\ Strip(f.value) # <<>> /\ Len(Strip(f.value)) <= 240
             GoodEpisode(e) == e.dict /\ Strip(e.text) # <<>> /\ Len(Strip(e.text)) <= 280
             goodEs == SelectSeq(es, GoodEpisode)
             LastFor(i) == \A j \in (i + 1)..Len(fs) :
                               GoodFact(fs[j]) => Lower(Strip(fs[j].key)) # Lower(Strip(fs[i].key))
         IN  /\ \A i \in 1..Len(fs) :
                   (GoodFact(fs[i]) /\ LastFor(i)) =>
                       \E r \in RowsOf(facts', u) :
                           r.key = Lower(Strip(fs[i].key)) /\ r.value = Strip(fs[i].value)
             /\ \A r \in RowsOf(facts', u) \ facts :
                   \E i \in 1..Len(fs) :
                       /\ GoodFact(fs[i])
                       /\ r.key = Lower(Strip(fs[i].key)) /\ r.value = Strip(fs[i].value)
             /\ nextEpisodeId' = nextEpisodeId + Len(goodEs)
             /\ \A j \in 1..Len(goodEs) :
                   \E e \in RowsOf(episodes', u) :
                       e.id = nextEpisodeId + j - 1 /\ e.text = Strip(goodEs[j].text)
             /\ \A e \in episodes' \ episodes : e.id >= nextEpisodeId
      ]_vars

\* an extraction dropped a fact with a key of 49 characters and an item that is no
\* dict, and committed the facts and the episodes around them
C6_Witness ==
    /\ last.op = "extract_and_store"
    /\ last.out = "processed"
    /\ Len(last.arg.facts.items) = 3
    /\ Len(last.arg.facts.items[2].key) = MaxKeyLen + 1
    /\ ~last.arg.episodes.items[2].dict
    /\ {r.key : r \in FactsOf(Uid(last.user))} = {<<"n">>, <<"c">>}
    /\ \E e \in EpisodesOf(Uid(last.user)) : e.id = 2 /\ e.text = Long(MaxTextLen)
    /\ \E e \in EpisodesOf(Uid(last.user)) : e.id = 1 /\ e.text = <<"A", "b">>

-----------------------------------------------------------------------------
(* Chat turns specification: messages recorded through the facade while         *)
(* extractions run on the worker threads                                         *)

\* what ask_llama_fn may do in a turn
TurnResponses ==
    {LlmRaises, LlmNotJson, LlmNotObject, LlmObject(JsonList(<<FactN>>), JsonList(<<EpisodeAb>>))}

NextTurns ==
    \/ nextMessageId <= MaxTurnMessages /\ RecordMessageBegin(1, RoleUser, <<"a", "b">>)
    \/ RecordMessageEnd
    \/ \E w \in 1..MaxWorkers, u \in Users : MaybeExtractBegin(w, u)
    \/ \E w \in 1..MaxWorkers, llm \in TurnResponses :
          MaybeExtractEnd(w, llm, <<NoEmbedding, NoEmbedding, NoEmbedding>>)

SpecTurns == Init /\ [][NextTurns]_vars

\* C7: for every user, should_extract with threshold 8 is false while fewer than 8
\* messages have been recorded for the user since the counter of the user was last
\* reset (or since start), and true as soon as 8 have been recorded.
C7_ShouldExtractFromEightMessages ==
    \A u \in Users : should_extract(u, 8) <=> recorded[u] >= 8

-----------------------------------------------------------------------------
(* Ceilings specification: the store opens the database of an earlier run that  *)
(* holds as many messages of user 1 as prune keeps, one recorded per second      *)

InitCeil ==
    /\ now = TickSeconds
    /\ facts = {}
    /\ episodes = {}
    /\ nextEpisodeId = 1
    /\ messages = {[id |-> i, user_id |-> Uid(1), ts |-> i, role |-> RoleUser,
                    content |-> <<"a", "b">>] : i \in 1..KeepMessages}
    /\ nextMessageId = KeepMessages + 1
    /\ msg_counter = << >>
    /\ recorded = [u \in Users |-> 0]
    /\ cyclesOver = [u \in Users |-> 0]
    /\ data = << >>
    /\ files = << >>
    /\ reading = NoRead
    /\ workers = [w \in 1..MaxWorkers |-> Idle]
    /\ last = NoCall
    /\ AsideInit

NextCeil ==
    \/ /\ nextMessageId <= KeepMessages + MaxCeilMessages
       /\ RecordMessageBegin(1, RoleUser, <<"a", "b">>)
    \/ RecordMessageEnd
    \/ AddEpisode(1, <<"a", "b">>, <<>>, Num(5), 0, NoEmbedding)
    \/ MaybeExtractBegin(1, 1)
    \/ \E llm \in {LlmRaises, LlmNotJson, LlmObject(JsonList(<<>>), JsonList(<<>>))} :
          MaybeExtractEnd(1, llm, <<NoEmbedding, NoEmbedding, NoEmbedding>>)

SpecCeil == InitCeil /\ [][NextCeil]_vars

\* C9: whatever record_message, add_episode and maybe_extract calls were made for a
\* user, cycles with a failing LLM call or a malformed answer included, the user is
\* above the ceiling of 300 messages or of 600 episodes for at most one extraction
\* cycle: no two cycles in a row end with a count above its ceiling.
C9_CeilingsWithinOneCycle ==
    \A u \in Users : cyclesOver[u] <= 1

-----------------------------------------------------------------------------
(* Facade specification: facades are constructed and asked for the prompt *)

NextFacade ==
    \/ \E u \in Users : Construct(u)
    \/ \E u \in Users, q \in {<<>>, <<"a", "b">>}, e \in {NoEmbedding, <<0, 1>>} :
          AsPrompt(u, q, e # NoEmbedding, e)
    \/ \E u \in Users, use_vector \in BOOLEAN :
          BuildPromptInjection(u, <<"a", "b">>, MaxPromptEpisodes, use_vector, FALSE, NoEmbedding)
    \/ \E k \in {KeyName, KeyVoiceEnabled} : UpsertFact(1, k, <<"a">>, Num(7))
    \/ \E e \in {NoEmbedding, <<0, 1>>} :
          AddEpisode(1, <<"A", "b">>, << <<"C", "d">> >>, Num(5), 0, e)

SpecFacade == Init /\ [][NextFacade]_vars

\* C8: building the memory context for a brand-new user, who has no fact and no
\* episode, returns the empty string: build_prompt_injection does, and so does
\* as_prompt called on the facade that was just constructed for that user, with
\* no fact, no episode and no snapshot of the user there before.
C8_NewUserContextIsEmpty ==
    [][/\ (/\ last'.op = "build_prompt_injection"
           /\ FactsOf(Uid(last'.user)) = {}
           /\ EpisodesOf(Uid(last'.user)) = {})
          => last'.out = <<>>
       /\ (/\ last.op = "construct"
           /\ last.was = <<0, 0, FALSE>>
           /\ last'.op = "as_prompt"
           /\ last'.user = last.user)
          => last'.out = <<>>
      ]_vars

-----------------------------------------------------------------------------
(* Store specification: every operation of SQLiteMemory *)

\* episodes are stored with a timestamp of a day after the epoch, before now
NextStore ==
    \/ UpsertFact(1, <<"n">>, <<"a">>, Num(7))
    \/ AddEpisode(1, <<"A", "b">>, << <<"C", "d">> >>, Num(15), DaySeconds, NoEmbedding)
    \/ AddEpisode(1, <<"a", "b">>, <<>>, Num(5), DaySeconds, <<3, 4>>)
    \/ \E u \in Users, limit \in 1..2 : RetrieveRelevant(u, <<"a", "b">>, limit)
    \/ \E e \in EmbedOutcomes :
          RetrieveRelevantVector(1, <<"a", "b">>, 1, SimilarityThreshold, RecencyWeight, e[1], e[2])
    \/ BuildPromptInjection(1, <<"a", "b">>, MaxPromptEpisodes, TRUE, TRUE, <<1, 0>>)
    \/ messages = {} /\ AddMessage(1, RoleUser, <<"a", "b">>, 0)
    \/ ResetExtractCounter(1)
    \/ Prune(1, 1, 1)
    \/ \E llm \in {LlmNotJson, LlmObject(JsonList(<<>>), JsonList(<<EpisodeAb>>))} :
          ExtractAndStore(1, llm, ExtractWindow, <<NoEmbedding, NoEmbedding, NoEmbedding>>)

SpecStore == Init /\ [][NextStore]_vars

\* the episodes a call returned: the list of a retrieval, the episodes that
\* build_prompt_injection put in the prompt
Returned(call) ==
    IF call.op \in {"retrieve_relevant", "retrieve_relevant_vector"} THEN call.out
    ELSE IF call.op = "build_prompt_injection" THEN call.was
    ELSE <<>>

\* C10: a call of retrieve_relevant or retrieve_relevant_vector (a vector call that
\* falls back to the lexical scan included) adds exactly 1 to times_used of every
\* episode it returns and sets its last_used_ts to the time of the call; times_used
\* of an episode it does not return is unchanged, and no other operation of the store
\* changes times_used of an episode.
C10_UsageCountedOncePerReturn ==
    [][now' = now =>
         LET ret == Returned(last')
             ids == {ret[i].id : i \in 1..Len(ret)}
         IN  /\ Cardinality(ids) = Len(ret)
             /\ \A id \in ids : \E e \in episodes' : e.id = id
             /\ \A e \in episodes : \A e2 \in episodes' :
                   e2.id = e.id =>
                       IF e.id \in ids
                       THEN e2.times_used = e.times_used + 1 /\ e2.last_used_ts = now
                       ELSE e2.times_used = e.times_used
      ]_vars

\* a vector call that fell back to the lexical scan returned one of the two episodes
\* of the user, at a later time than the episode was stored: it is the one counted
C10_Witness ==
    /\ last.op = "retrieve_relevant_vector"
    /\ last.was = "no query embedding"
    /\ Len(last.out) = 1
    /\ Cardinality(EpisodesOf(Uid(last.user))) = 2
    /\ \E e \in EpisodesOf(Uid(last.user)) :
          e.id = last.out[1].id /\ e.times_used = 1 /\ e.last_used_ts = now /\ e.ts < now
    /\ \E e \in EpisodesOf(Uid(last.user)) : e.id # last.out[1].id /\ e.times_used = 0

-----------------------------------------------------------------------------
(* Extraction cycles specification: a user with stored facts and episodes whose *)
(* turns record messages while maybe_extract runs on the worker threads          *)

NextCycles ==
    \/ nextMessageId <= MaxTurnMessages /\ RecordMessageBegin(1, RoleUser, <<"a", "b">>)
    \/ RecordMessageEnd
    \/ UpsertFact(1, <<"c">>, <<"b">>, Num(7))
    \/ AddEpisode(1, <<"a", "b">>, <<>>, Num(5), 0, NoEmbedding)
    \/ \E w \in 1..MaxWorkers : MaybeExtractBegin(w, 1)
    \/ \E w \in 1..MaxWorkers, llm \in TurnResponses :
          MaybeExtractEnd(w, llm, <<NoEmbedding, NoEmbedding, NoEmbedding>>)

SpecCycles == Init /\ [][NextCycles]_vars

\* a step in which a worker comes back from maybe_extract after the LLM answered
CycleEnds == \E w \in 1..MaxWorkers : workers[w].pc = "llm" /\ workers'[w] = Idle

\* C11: when the answer of the extraction LLM is not parseable as JSON or parses to
\* something that is no object, the extraction cycle writes nothing: the facts and
\* the episodes are the same before and after it, and maybe_extract returns to the
\* chat turn (the worker is idle again) without an exception having been raised.
C11_MalformedAnswerWritesNothing ==
    [][(CycleEnds /\ last'.arg.kind \in {"not json", "not object"})
          => /\ facts' = facts
             /\ episodes' = episodes
             /\ last'.op = "maybe_extract"
             /\ last'.out = last'.arg.kind]_vars

C11_Witness ==
    /\ last.op = "maybe_extract"
    /\ last.out = "not json"
    /\ FactsOf(Uid(1)) # {}
    /\ EpisodesOf(Uid(1)) # {}
    /\ \A w \in 1..MaxWorkers : workers[w] = Idle

\* C12: when an extraction cycle of a user succeeds (the answer parsed to an object
\* and its items were processed), prune has been applied and the counter of the user
\* is zero when maybe_extract returns, and from then on should_extract is false for
\* the user until 8 further messages have been recorded.
C12_SuccessResetsAndPrunes ==
    [][\A u \in Users :
          /\ (CycleEnds /\ last'.user = u /\ last'.out = "processed")
                => /\ CounterOf(Uid(u))' = 0
                   /\ Cardinality(MessagesOf(Uid(u)))' <= KeepMessages
                   /\ Cardinality(EpisodesOf(Uid(u)))' <= KeepEpisodes
          /\ (/\ last'.op = "maybe_extract" /\ last'.user = u /\ last'.out = "processed"
              /\ recorded'[u] < ExtractEvery)
                => ~should_extract(u, ExtractEvery)']_vars

-----------------------------------------------------------------------------
(* Message log specification: messages of two users recorded within the same   *)
(* second and across seconds, and the window that extraction reads               *)

NextLog ==
    \/ \E u \in Users, role \in {RoleUser, RoleAssistant} :
          AddMessage(u, role, <<"a", "b">>, 0)
    \/ Tick
    \/ \E u \in Users, n \in 1..MaxMessages : GetRecentMessages(u, n)

SpecLog == Init /\ [][NextLog]_vars

\* the ids of the last n rows of S in the order of their insertion
LastInserted(S, n) ==
    LET k == Min(n, Cardinality(S))
        nth(i) == CHOOSE r \in S : Cardinality({x \in S : x.id <= r.id}) = i
    IN  [i \in 1..k |-> nth(Cardinality(S) - k + i).id]

\* C13: for every user, get_recent_messages(U, n) returns the last n messages
\* recorded for U, oldest first, in the order in which the add_message calls for U
\* were received, also when several of them carry the same timestamp.
C13_RecentMessagesInArrivalOrder ==
    last.op = "get_recent_messages"
       => last.was = LastInserted(MessagesOf(Uid(last.user)), last.arg)

-----------------------------------------------------------------------------
(* Lock specification: the event-loop thread and the extraction thread call the *)
(* methods of the store in any order and interleave step by step                 *)

NextLock ==
    \/ \E t \in StoreThreads, m \in StoreMethods : \E steps \in StoreSteps(m) :
          StoreCall(t, m, steps)
    \/ \E t \in StoreThreads : StoreAcquire(t)
    \/ \E t \in StoreThreads : StoreStatement(t)
    \/ \E t \in StoreThreads : StoreRelease(t)
    \/ \E t \in StoreThreads : StoreReturn(t)

SpecLock == Init /\ [][NextLock]_vars

\* the step the call of thread t took last ("" before its first)
LastStep(t) ==
    LET c == conn.calls[t]
    IN  IF c.at > 0 THEN c.steps[c.at] ELSE ""

\* thread t has executed a statement of a transaction that it has not finished
InTransaction(t) == LastStep(t) = "execute"

\* C14: under any interleaving of the event-loop thread with the extraction
\* thread, at most one thread at a time executes a transaction on the shared
\* connection; every statement of a method of the store runs while the thread holds
\* the lock of the store; and no thread acquires the lock while it holds it.
C14_TransactionsUnderTheLock ==
    /\ Cardinality({t \in StoreThreads : InTransaction(t)}) <= 1
    /\ \A t \in StoreThreads : LastStep(t) \in Statements => conn.lock = t
    /\ \A t \in StoreThreads : NextStep(t) \in Statements => conn.lock = t
    /\ \A t \in StoreThreads : NextStep(t) = "acquire" => conn.lock # t

C14_Witness ==
    /\ InTransaction("worker")
    /\ conn.calls["worker"].method = "extract_and_store"
    /\ conn.calls["worker"].at > Len(ReadSection)
    /\ conn.calls["loop"].method = "add_message"
    /\ NextStep("loop") = "acquire"

-----------------------------------------------------------------------------
(* Users specification: two users who share the database file *)

\* each user stores an episode and a message when it has none; user 1 makes every
\* call of the store next to the rows of user 2
NextUsers ==
    \/ \E u \in Users : UpsertFact(u, <<"n">>, <<"a">>, Num(7))
    \/ \E u \in Users : EpisodesOf(Uid(u)) = {} /\ AddEpisode(u, <<"a", "b">>, <<>>, Num(5), 0, <<1, 0>>)
    \/ \E u \in Users : MessagesOf(Uid(u)) = {} /\ AddMessage(u, RoleUser, <<"a", "b">>, 0)
    \/ \E u \in Users : RetrieveRelevant(u, <<"a", "b">>, 1)
    \/ RetrieveRelevantVector(1, <<"a", "b">>, 1, SimilarityThreshold, RecencyWeight, TRUE, <<1, 0>>)
    \/ ExtractAndStore(1, LlmObject(JsonList(<<FactC>>), JsonList(<<EpisodeAb>>)), ExtractWindow,
                       <<NoEmbedding, NoEmbedding, NoEmbedding>>)
    \/ Prune(1, 0, 0)
    \/ ResetExtractCounter(1)

SpecUsers == Init /\ [][NextUsers]_vars

\* C15: an operation of the store for a user A (upsert_fact, add_episode,
\* add_message, retrieve_relevant, retrieve_relevant_vector, extract_and_store,
\* prune, reset_extract_counter) leaves the facts, the episodes (times_used and
\* last_used_ts included), the messages and the message counter of every other
\* user B as they were.
C15_OtherUsersUntouched ==
    [][\A b \in Users :
          b # last'.user =>
              /\ FactsOf(Uid(b))' = FactsOf(Uid(b))
              /\ EpisodesOf(Uid(b))' = EpisodesOf(Uid(b))
              /\ MessagesOf(Uid(b))' = MessagesOf(Uid(b))
              /\ CounterOf(Uid(b))' = CounterOf(Uid(b))
      ]_vars

\* prune for user 1 has just deleted rows of user 1 while user 2 holds a fact, an
\* episode that a retrieval has counted, a message and a counted message
C15_Witness ==
    /\ last.op = "prune"
    /\ last.user = 1
    /\ Cardinality(EpisodesOf(Uid(1))) + Cardinality(MessagesOf(Uid(1))) < last.was[1] + last.was[2]
    /\ FactsOf(Uid(2)) # {}
    /\ \E e \in EpisodesOf(Uid(2)) : e.times_used > 0
    /\ MessagesOf(Uid(2)) # {}
    /\ CounterOf(Uid(2)) > 0

-----------------------------------------------------------------------------
(* Cache specification: embed_text on the event loop and on a worker thread, *)
(* after a hundred texts have been embedded                                  *)

FullCache == [i \in 1..CACHE_MAX_SIZE |-> [key |-> Rep("x", i), vec |-> <<Num(1), Num(0)>>]]

InitCache ==
    /\ now = TickSeconds
    /\ facts = {}
    /\ episodes = {}
    /\ nextEpisodeId = 1
    /\ messages = {}
    /\ nextMessageId = 1
    /\ msg_counter = << >>
    /\ recorded = [u \in Users |-> 0]
    /\ cyclesOver = [u \in Users |-> 0]
    /\ data = << >>
    /\ files = << >>
    /\ reading = NoRead
    /\ workers = [w \in 1..MaxWorkers |-> Idle]
    /\ last = NoCall
    /\ conn = ConnIdle
    /\ embed = [EmbedEmpty EXCEPT !.cache = FullCache]
    /\ burst = BurstEmpty
    /\ mq = QueueEmpty
    /\ migration = NotMigrating

\* texts: the oldest key of the cache, a new key in two spellings, two texts that
\* differ after their 200th character, and a blank text
EmbedTexts ==
    {<<"X", " ">>, <<"y">>, <<" ", "Y">>, Rep("x", KeyPrefixLen) \o <<"a">>,
     Rep("x", KeyPrefixLen) \o <<"b">>, <<" ">>}

EmbedAnswers ==
    {ServiceAnswer("timeout", <<>>), ServiceAnswer("list", <<Num(0), Num(1)>>),
     ServiceAnswer("list", <<Num(3), Num(4)>>)}

NextCache ==
    \/ \E t \in StoreThreads, text \in EmbedTexts : EmbedCall(t, text)
    \/ \E t \in StoreThreads : EmbedHit(t)
    \/ \E t \in StoreThreads, answer \in EmbedAnswers : EmbedPost(t, answer)
    \/ \E t \in StoreThreads : EmbedInsert(t)
    \/ \E t \in StoreThreads : EmbedLen(t)
    \/ \E t \in StoreThreads : EmbedOldest(t)
    \/ \E t \in StoreThreads : EmbedDel(t)

SpecCache == InitCache /\ [][NextCache]_vars

\* C16: when no call of embed_text is running the cache holds at most 100 entries;
\* a call that found its key in the cache returns the vector cached under the key
\* without calling the embedding service; and an entry leaves the cache only as the
\* one inserted earliest, entries that were hit keeping their place.
C16_CacheBoundedOldestFirst ==
    [][/\ (\A t \in StoreThreads : embed'.calls[t].pc = "idle")
             => Len(embed'.cache) <= CACHE_MAX_SIZE
       /\ \A t \in StoreThreads :
             (embed.calls[t].pc = "hit" /\ embed'.calls[t].pc = "idle")
                 => /\ embed'.out[t].how = "hit"
                    /\ ~embed'.out[t].posted
                    /\ embed'.out[t].result = CacheGet(embed.cache, embed.calls[t].key)
       /\ Len(embed'.cache) < Len(embed.cache) => embed'.cache = Tail(embed.cache)
       /\ Len(embed'.cache) = Len(embed.cache)
             => [i \in 1..Len(embed.cache) |-> embed'.cache[i].key]
                   = [i \in 1..Len(embed.cache) |-> embed.cache[i].key]
      ]_vars

-----------------------------------------------------------------------------
(* Embedded episodes specification: add_episode against an embedding service that *)
(* times out, refuses, or answers with a well-formed or a malformed payload       *)

EpisodeAnswers ==
    {ServiceAnswer(k, <<>>) : k \in {"timeout", "status", "not json", "not object", "no embedding",
                                      "not a list", "list"}}
        \cup {ServiceAnswer("list", <<Num(3), Num(4)>>), ServiceAnswer("list", <<NotANumber, Num(1)>>)}

NextEmbedded ==
    \E u \in Users, text \in {<<"a", "b">>, <<"c", " ">>, <<" ">>}, mv \in BOOLEAN, answer \in EpisodeAnswers :
          AddEpisodeEmbed(u, text, <<>>, Num(5), 0, mv, answer)

SpecEmbedded == Init /\ [][NextEmbedded]_vars

\* the service was asked and did not answer with a list of numbers
ServiceFailed(call) == call.was /\ (EmbeddingOf(call.arg[3]) = NoEmbedding \/ ~Packable(call.arg[3].items))

\* C17: add_episode with embed=True and a non-empty text returns without raising
\* and has stored the episode; when the embedding service failed (timeout, status
\* other than 200, malformed payload) the stored episode has a null embedding.
C17_EpisodePersistsWithoutEmbedding ==
    [][(last'.op = "add_episode" /\ Strip(last'.arg[1]) # <<>>)
          => /\ last'.out = "stored"
             /\ \E row \in episodes' \ episodes :
                   /\ row.id = nextEpisodeId
                   /\ row.user_id = Uid(last'.user)
                   /\ row.text = Strip(last'.arg[1])
                   /\ ServiceFailed(last') => row.embedding = NoEmbedding
      ]_vars

-----------------------------------------------------------------------------
(* Burst specification: messages of two users of a channel, the workers of *)
(* their bursts and the timers of the windows                              *)

\* the text of the next message: a line of its own, a blank text, a text of
\* max_chars characters
BurstLine == <<" ", "l", ToString(burst.count + 1)>>

BurstTexts == {BurstLine, <<" ">>, Rep("x", max_chars)}

NextBurst ==
    \/ \E text \in BurstTexts : Enqueue(<<1, 1>>, text)
    \/ Enqueue(<<1, 2>>, BurstLine)
    \/ \E id \in 1..Len(burst.tasks) : WorkerRun(id)
    \/ \E id \in 1..Len(burst.tasks) : WorkerTimeout(id)
    \/ \E id \in 1..Len(burst.tasks) : HandlerReturn(id)

SpecBurst == Init /\ [][NextBurst]_vars

\* the calls of the handler for a key, in the order in which they were made
CallsFor(key) == SelectSeq(burst.calls, LAMBDA c : c.key = key)

\* the lines of the bursts that were handed over for a key, one after the other
RECURSIVE LinesOf(_)
LinesOf(calls) == IF calls = <<>> THEN <<>> ELSE Head(calls).lines \o LinesOf(Tail(calls))

Buffered(key) == IF key \in DOMAIN burst.bursts THEN burst.bursts[key].lines ELSE <<>>

\* a burst has a worker that is in its loop, and a worker in its loop has its burst
WorkersOwnBursts ==
    /\ \A key \in DOMAIN burst.bursts :
          LET id == burst.bursts[key].task
          IN  id \in 1..Len(burst.tasks) /\ burst.tasks[id].key = key
                 /\ burst.tasks[id].pc \in {"ready", "waiting"}
    /\ \A id \in 1..Len(burst.tasks) :
          burst.tasks[id].pc \in {"ready", "waiting"}
             => /\ burst.tasks[id].key \in DOMAIN burst.bursts
                /\ burst.bursts[burst.tasks[id].key].task = id

\* C19: under every interleaving of enqueue with the workers, the non-empty lines
\* enqueued for a key are, in their order of arrival, the lines of the calls of the
\* handler for the key followed by the lines still buffered for it: no line is
\* lost, handed over twice or handed over for another key; a call hands over every
\* line buffered for its key as one text, the lines joined in their order of
\* arrival, whenever that text is within max_chars.
C19_EachLineDeliveredOnce ==
    /\ \A key \in BurstKeys : burst.received[key] = LinesOf(CallsFor(key)) \o Buffered(key)
    /\ \A i \in 1..Len(burst.calls) :
          LET c == burst.calls[i]
          IN  /\ c.lines # <<>>
              /\ Len(Join(c.lines, <<"\n">>)) <= max_chars => c.combined_text = Join(c.lines, <<"\n">>)

\* the second and the third message, of one user, were handed over in one call after
\* the first message, of the other user, had been handed over
C19_Witness ==
    \E i, j \in 1..Len(burst.calls) :
        /\ i < j
        /\ burst.calls[i].key # burst.calls[j].key
        /\ Len(burst.calls[j].lines) = 2
        /\ burst.calls[j].cause = "timeout"
        /\ burst.calls[j].combined_text = <<"l", "2", "\n", "l", "3">>

-----------------------------------------------------------------------------
(* Burst specifications with a fair event loop *)

\* the event loop runs every task that is ready to run
LoopFairness == \A id \in 1..MaxEnqueues : WF_vars(WorkerRun(id))

\* and a timer of the loop fires when its time has come
TimerFairness == \A id \in 1..MaxEnqueues : WF_vars(WorkerTimeout(id))

SpecBurstFair == SpecBurst /\ LoopFairness /\ TimerFairness

\* the loop is fair to the tasks, while a window may last for ever
SpecBurstNoTimer == SpecBurst /\ LoopFairness

\* the step is a call of the handler
HandlerCalled == Len(burst'.calls) = Len(burst.calls) + 1

\* C18: with a handler set, every non-empty line enqueued for a key leaves the
\* buffer in the end, and a line that has left the buffer is in a call of the handler
\* for its key; when the window of a burst of a single line is over, the step that
\* ends the wait calls the handler with that line.
C18_EveryEnqueueDelivered ==
    /\ \A key \in BurstKeys : (Buffered(key) # <<>>) ~> (Buffered(key) = <<>>)
    /\ [](\A key \in BurstKeys : burst.received[key] = LinesOf(CallsFor(key)) \o Buffered(key))
    /\ [][\A id \in 1..Len(burst.tasks) :
             (/\ burst.tasks[id].pc = "waiting"
              /\ burst'.tasks[id].pc # "waiting"
              /\ Len(Buffered(burst.tasks[id].key)) = 1)
                => /\ HandlerCalled
                   /\ burst'.calls[Len(burst'.calls)].key = burst.tasks[id].key
                   /\ burst'.calls[Len(burst'.calls)].combined_text = Buffered(burst.tasks[id].key)[1]
         ]_vars

\* the only message of a user was handed over when its window was over
C18_Witness ==
    \E i \in 1..Len(burst.calls) :
        /\ burst.calls[i].cause = "timeout"
        /\ burst.calls[i].lines = burst.received[burst.calls[i].key]
        /\ Len(burst.calls[i].lines) = 1
        /\ burst.count = MaxEnqueues

\* the buffer of the key is at one of its caps
AtCap(key) ==
    \/ Len(Buffered(key)) >= max_lines
    \/ Len(Strip(Join(Buffered(key), <<"\n">>))) >= max_chars

\* C20: once the lines buffered for a key are max_lines or more, or their combined
\* text has max_chars characters or more, the burst is finalized even if no window
\* ever expires: the worker of the key is ready to run or its event is set, and the
\* step it takes pops the burst and calls the handler with the buffered lines.
C20_CapsFinalizeEarly ==
    /\ \A key \in BurstKeys : AtCap(key) ~> ~AtCap(key)
    /\ [](\A key \in BurstKeys :
             AtCap(key) => LET id == burst.bursts[key].task
                           IN  \/ burst.tasks[id].pc = "ready"
                               \/ burst.tasks[id].pc = "waiting" /\ burst.bursts[key].event)
    /\ [][\A key \in BurstKeys :
             (AtCap(key) /\ burst'.tasks[burst.bursts[key].task] # burst.tasks[burst.bursts[key].task])
                => /\ HandlerCalled
                   /\ burst'.calls[Len(burst'.calls)].key = key
                   /\ burst'.calls[Len(burst'.calls)].lines = Buffered(key)
                   /\ key \notin DOMAIN burst'.bursts
         ]_vars

\* three lines of a user were handed over at the cap, no window having expired
C20_Witness ==
    /\ \E i \in 1..Len(burst.calls) :
          burst.calls[i].cause = "caps" /\ Len(burst.calls[i].lines) = max_lines
    /\ \A i \in 1..Len(burst.calls) : burst.calls[i].cause = "caps"


-----------------------------------------------------------------------------
(* Queue specification: bot.py enqueues with the trust of the author and starts the
   worker in on_ready, which Discord may fire again after a reconnect; stop_worker
   has no caller *)

TrustScores == {0, TrustNormal, TrustHigh}

NextQueue ==
    \/ \E trust_score \in TrustScores, dt \in {0, 1} : MqEnqueueWithTrust(trust_score, dt)
    \/ \E handler \in BOOLEAN : MqStartWorker(handler)
    \/ \E w \in 1..Len(mq.tasks) : MqGet(w)
    \/ \E w \in 1..Len(mq.tasks) : MqGetTimeout(w)
    \/ \E w \in 1..Len(mq.tasks) : MqHandlerCall(w)
    \/ \E w \in 1..Len(mq.tasks), outcome \in {"returns", "raises"} : MqHandlerEnd(w, outcome)

SpecQueue == Init /\ [][NextQueue]_vars

\* the tasks that are inside `await self._handler(...)`
InHandler == {w \in 1..Len(mq.tasks) : mq.tasks[w].pc = "handler"}

\* task w takes an item off the queue in this step
Dequeues(w) == w \in 1..Len(mq.tasks) /\ mq.tasks[w].pc = "get" /\ mq'.tasks[w].pc = "got"

\* C21: at most one handler invocation is in progress at any time, however often
\* start_worker is called, and every dequeue takes an item that was queued and that
\* no queued item precedes in (priority, timestamp).
C21_OneHandlerInPriorityOrder ==
    /\ [](Cardinality(InHandler) <= 1 /\ Len(mq.tasks) <= 1)
    /\ [][\A w \in 1..MaxStarts :
              Dequeues(w) =>
                  /\ mq'.tasks[w].item \in mq.queue
                  /\ mq'.queue = mq.queue \ {mq'.tasks[w].item}
                  /\ \A j \in mq.queue :
                         \/ mq'.tasks[w].item.priority < j.priority
                         \/ /\ mq'.tasks[w].item.priority = j.priority
                            /\ mq'.tasks[w].item.timestamp <= j.timestamp]_vars

\* start_worker was called twice, and the handler runs on the HIGH item that was
\* enqueued second while the LOW item enqueued first still waits
C21_Witness ==
    /\ mq.starts = 2
    /\ \E w \in InHandler : mq.tasks[w].item.priority = HIGH /\ mq.tasks[w].item.message = 2
    /\ \E j \in mq.queue : j.priority = LOW /\ j.message = 1

\* an enqueue call returns in this step
Enqueues == mq'.enqueued = mq.enqueued + 1

\* the handler of task w raises in this step
Raises(w) == w \in 1..Len(mq.tasks) /\ mq.tasks[w].pc = "handler" /\ mq'.raised = mq.raised + 1

\* C22: enqueue on a queue of fewer than max_size items returns True and adds the
\* item; on a full queue it returns False, leaves the queue as it is and adds one to
\* dropped_count; the queue never holds more than max_size items; after a handler
\* raised, the worker is back at the head of its loop, running, and no item is lost.
C22_BoundedQueueSurvivesHandlerErrors ==
    /\ [](Cardinality(mq.queue) <= max_size)
    /\ [][Enqueues =>
             IF Cardinality(mq.queue) < max_size
             THEN /\ mq'.out = "True"
                  /\ \E i \in mq'.queue \ mq.queue :
                         /\ mq'.queue = mq.queue \cup {i}
                         /\ i.message = mq'.enqueued
                  /\ mq'.dropped_count = mq.dropped_count
             ELSE /\ mq'.out = "False"
                  /\ mq'.queue = mq.queue
                  /\ mq'.dropped_count = mq.dropped_count + 1]_vars
    /\ [][\A w \in 1..MaxStarts :
              Raises(w) =>
                  /\ mq'.tasks[w].pc = "get"
                  /\ mq'.running
                  /\ mq'.queue = mq.queue
                  /\ ~mq'.processing]_vars

\* an enqueue was refused, the handler raised on the first item, and the worker is
\* in the handler again with the item that was queued behind it
C22_Witness ==
    /\ mq.dropped_count = 1
    /\ mq.raised = 1
    /\ mq.processed_count = 0
    /\ mq.handled = <<1, 2>>
    /\ InHandler # {}

-----------------------------------------------------------------------------
(* Caps specification: answers whose lists are shorter than, as long as and longer
   than the slices of extract_and_store *)

MaxCallEpisodes == 4    \* episodes ever inserted (caps specification)

FactNo(i, value) == FactItem(<<"k", ToString(i)>>, value, Num(7))
EpisodeNo(i) == EpisodeItem(<<"e", ToString(i)>>, JsonList(<<>>), Num(5))

LongAnswers ==
    {LlmObject(JsonList([i \in 1..nf |-> FactNo(i, value)]), JsonList([i \in 1..ne |-> EpisodeNo(i)])) :
        nf \in {0, MaxFactsPerCall - 1, MaxFactsPerCall, MaxFactsPerCall + 1, MaxFactsPerCall + 2},
        ne \in 0..(MaxEpisodesPerCall + 2), value \in {<<"v">>, <<"w">>}}

NextCaps ==
    \/ AddMessage(1, RoleUser, <<"a">>, 0)
    \/ \E llm \in LongAnswers \cup {LlmNotJson} :
           ExtractAndStoreWithin(MaxCallEpisodes, 1, llm, ExtractWindow,
                                 [i \in 1..(MaxEpisodesPerCall + 2) |-> NoEmbedding])

SpecCaps == Init /\ [][NextCaps]_vars

\* the fact keys among the first n items of the answer in last
KeysUpTo(call, n) == {Lower(Strip(call.arg.facts.items[i].key)) : i \in 1..Min(n, Len(call.arg.facts.items))}

\* C23: one extract_and_store call writes at most 10 fact rows and inserts at most 3
\* episodes however long the lists of the answer are; the items behind the slices
\* leave no row, and the call returns normally.
C23_CapsPerExtraction ==
    [][last'.op = "extract_and_store" /\ last'.out = "processed" =>
          /\ Cardinality(facts' \ facts) <= MaxFactsPerCall
          /\ Cardinality(episodes' \ episodes) <= MaxEpisodesPerCall
          /\ nextEpisodeId' - nextEpisodeId <= MaxEpisodesPerCall
          /\ {r.key : r \in facts' \ facts} \subseteq KeysUpTo(last', MaxFactsPerCall)
          /\ \A r \in episodes' \ episodes :
                 \E i \in 1..Min(MaxEpisodesPerCall, Len(last'.arg.episodes.items)) :
                     r.text = Strip(last'.arg.episodes.items[i].text)]_vars

\* an answer of 12 facts and 5 episodes was processed: 10 facts and 3 episodes are
\* in the tables
C23_Witness ==
    /\ last.op = "extract_and_store"
    /\ last.out = "processed"
    /\ Len(last.arg.facts.items) = MaxFactsPerCall + 2
    /\ Len(last.arg.episodes.items) = MaxEpisodesPerCall + 2
    /\ Cardinality(facts) = MaxFactsPerCall
    /\ Cardinality(episodes) = MaxEpisodesPerCall

-----------------------------------------------------------------------------
(* Vector ranking, on the retrieval specification *)

\* the embedding of the query in the retrieval specification
QueryVector == CHOOSE v \in Vectors : TRUE

\* the row of the i-th episode a call returned
RowOfResult(call, i) == CHOOSE r \in episodes : r.id = call.out[i].id

\* the embedded episodes of the user that are more similar to the query than row
MoreSimilar(user_id, row) ==
    {e \in EpisodesOf(Uid(user_id)) :
        /\ e.embedding # NoEmbedding
        /\ Similarity(QueryVector, e.embedding) > Similarity(QueryVector, row.embedding)}

\* C24: a retrieve_relevant_vector call whose query was embedded, made while an
\* episode of the user has a vector, returns at most limit episodes; each of them has
\* a vector whose cosine similarity to the query is at least the threshold and is
\* among the limit*2 most similar; they come by non-increasing hybrid score.
C24_VectorRankingAboveThreshold ==
    [][(/\ last'.op = "retrieve_relevant_vector"
        /\ last'.arg[3]
        /\ \E e \in EpisodesOf(Uid(last'.user)) : e.embedding # NoEmbedding)
       => /\ Len(last'.out) <= last'.arg[2]
          /\ \A i \in 1..Len(last'.out) :
                /\ RowOfResult(last', i).embedding # NoEmbedding
                /\ Similarity(QueryVector, RowOfResult(last', i).embedding) >= SimilarityThreshold
                /\ Cardinality(MoreSimilar(last'.user, RowOfResult(last', i))) < 2 * last'.arg[2]
          /\ \A i, j \in 1..Len(last'.out) :
                i < j =>
                    HybridScore(Similarity(QueryVector, RowOfResult(last', i).embedding),
                                last'.out[i].ts, RecencyWeight)
                    >= HybridScore(Similarity(QueryVector, RowOfResult(last', j).embedding),
                                   last'.out[j].ts, RecencyWeight)
      ]_vars

\* the embedded episodes of the user that pass the similarity threshold
PassingThreshold(user_id) ==
    {e \in EpisodesOf(Uid(user_id)) :
        e.embedding # NoEmbedding /\ Similarity(QueryVector, e.embedding) >= SimilarityThreshold}

\* C26: in a retrieve_relevant_vector call whose query was embedded, while fewer than
\* limit embedded episodes of the user pass the similarity threshold, every episode of
\* the user that was stored without a vector and shares a token with the query is
\* among the results.
C26_UnembeddedStaysRetrievable ==
    [][(/\ last'.op = "retrieve_relevant_vector"
        /\ last'.arg[3]
        /\ Cardinality(PassingThreshold(last'.user)) < last'.arg[2])
       => \A e \in EpisodesOf(Uid(last'.user)) :
              (e.embedding = NoEmbedding /\ Overlap(last'.arg[1], e) > 0)
                  => \E i \in 1..Len(last'.out) : last'.out[i].id = e.id
      ]_vars

-----------------------------------------------------------------------------
(* Ties specification: lexical retrieval over episodes old enough for their recency
   to be 0, so that episodes of different timestamps score the same *)

InitOld ==
    /\ now = 4 * TickSeconds
    /\ facts = {}
    /\ episodes = {}
    /\ nextEpisodeId = 1
    /\ messages = {}
    /\ nextMessageId = 1
    /\ msg_counter = << >>
    /\ recorded = [u \in Users |-> 0]
    /\ cyclesOver = [u \in Users |-> 0]
    /\ data = << >>
    /\ files = << >>
    /\ reading = NoRead
    /\ workers = [w \in 1..MaxWorkers |-> Idle]
    /\ last = NoCall
    /\ AsideInit

\* timestamps passed to add_episode: two old days, and none (now)
TieTimestamps == {DaySeconds, 2 * DaySeconds, 0}

NextTies ==
    \/ \E text \in {<<"a", "b">>, <<"a", "b", " ", "c", "d">>}, importance \in {Num(5), Num(9)}, ts \in TieTimestamps :
           AddEpisode(1, text, <<>>, importance, ts, NoEmbedding)
    \/ \E limit \in 1..2 : RetrieveRelevant(1, <<"a", "b", " ", "c", "d">>, limit)

SpecTies == InitOld /\ [][NextTies]_vars

\* the score retrieve_relevant gives the i-th episode it returned
ScoreOfResult(call, i) == LexicalScore(call.out[i], Overlap(call.arg[1], call.out[i]))

\* C25: retrieve_relevant returns at most limit episodes by non-increasing score
\* 2*overlap + 1.5*importance + recency, and of two returned episodes with the same
\* score the one with the more recent timestamp comes first.
C25_LexicalOrderStable ==
    [][last'.op = "retrieve_relevant" =>
          /\ Len(last'.out) <= last'.arg[2]
          /\ \A i, j \in 1..Len(last'.out) :
                i < j =>
                    /\ ScoreOfResult(last', i) >= ScoreOfResult(last', j)
                    /\ ScoreOfResult(last', i) = ScoreOfResult(last', j)
                           => last'.out[i].ts >= last'.out[j].ts]_vars

\* a call returned two episodes of the same score and of different timestamps, and a
\* call with limit 1 left a matching episode out
C25_Witness ==
    /\ last.op = "retrieve_relevant"
    /\ Len(last.out) = 2
    /\ ScoreOfResult(last, 1) = ScoreOfResult(last, 2)
    /\ last.out[1].ts > last.out[2].ts

-----------------------------------------------------------------------------
(* Snapshot specification: facades constructed again after the store took facts
   from the extraction pipeline and from upsert_fact *)

Danish == <<"D", "a", "n", "i", "s", "h">>

FacadeKeys == {KeyName, KeyPreferredLanguage, KeyLikes, KeyDislikes, KeyVoiceEnabled}

\* the LLM found the language of the user
LanguageAnswer == LlmObject(JsonList(<<FactItem(KeyPreferredLanguage, Danish, Num(9))>>), JsonList(<<>>))

NextSnapshot ==
    \/ \E u \in Users : Construct(u)
    \/ \E k \in {KeyName, KeyLikes, KeyVoiceEnabled}, v \in {Danish, <<"1">>} : UpsertFact(1, k, v, Num(7))
    \/ AddMessage(1, RoleUser, <<"a", "b">>, 0)
    \/ ExtractAndStore(1, LanguageAnswer, ExtractWindow, <<NoEmbedding, NoEmbedding, NoEmbedding>>)

SpecSnapshot == Init /\ [][NextSnapshot]_vars

\* the value a facade holds for a key of the facts table
FieldOf(d, key) ==
    CASE key = KeyName -> d.name
      [] key = KeyPreferredLanguage -> d.preferred_language
      [] key = KeyLikes -> d.likes
      [] key = KeyDislikes -> d.dislikes
      [] key = KeyVoiceEnabled -> d.voice_enabled

\* what the facts table alone gives a facade of the user
FromSqlite(user_id) == LoadFromSqlite(DefaultData, user_id)

\* C27: when Long_Term_Memory is constructed for a user who has a JSON snapshot, then
\* for every facade key that the facts table holds for the user, .data keeps the value
\* of the facts table, and after the save() of the constructor the facts table still
\* gives that value.
C27_SqlitePreferredOverSnapshot ==
    [][\A u \in Users :
          (last'.op = "construct" /\ last'.user = u /\ Uid(u) \in DOMAIN files)
          => \A key \in FacadeKeys \cap DOMAIN get_facts(u) :
                 /\ FieldOf(data'[Uid(u)], key) = FieldOf(FromSqlite(u), key)
                 /\ FieldOf(FromSqlite(u)', key) = FieldOf(FromSqlite(u), key)
      ]_vars

-----------------------------------------------------------------------------
(* Extraction cycles in flight, on the turns and on the cycles specification *)

\* the workers that are inside extract_and_store for the user, waiting for the LLM
InFlight(user_id) == {w \in 1..MaxWorkers : workers[w].pc = "llm" /\ workers[w].user = user_id}

\* C28: for one user at most one extraction cycle is in flight: while a maybe_extract
\* of the user is between its call of extract_and_store and its reset of the counter,
\* no other maybe_extract of the user calls the LLM function.
C28_OneExtractionInFlight == \A u \in Users : Cardinality(InFlight(u)) <= 1

\* a step in which a maybe_extract runs from its start to its call of the LLM
\* function, or to its return when it does not get that far
CycleBegins == last'.op = "maybe_extract" /\ reading' = reading /\ ~CycleEnds

\* C29: when maybe_extract comes back from an extract_and_store that returned
\* normally (the items were processed, the answer was no JSON or no object, or the
\* window was empty) the counter of the user is zero; when extract_and_store raised
\* the counter is what it was and nothing was written. A maybe_extract that finds
\* the counter at the threshold attempts the extraction, one that finds it below
\* leaves the counter alone.
C29_ResetUnlessRaised ==
    [][\A u \in Users :
          /\ (CycleEnds /\ last'.user = u) =>
                 /\ last'.op = "maybe_extract"
                 /\ IF last'.arg.kind = "raises"
                    THEN msg_counter' = msg_counter /\ facts' = facts /\ episodes' = episodes
                    ELSE CounterOf(Uid(u))' = 0
          /\ (CycleBegins /\ last'.user = u) =>
                 IF should_extract(u, ExtractEvery)
                 THEN \/ last'.out = "calls llm" /\ msg_counter' = msg_counter
                      \/ last'.out = "no messages" /\ CounterOf(Uid(u))' = 0
                 ELSE last'.out = "not due" /\ msg_counter' = msg_counter]_vars

\* eight messages were recorded and the cycle that followed was aborted on an answer
\* that is no JSON: the counter is back at zero
C29_Witness ==
    /\ last.op = "maybe_extract"
    /\ last.out = "not json"
    /\ Cardinality(MessagesOf(Uid(1))) >= ExtractEvery
    /\ CounterOf(Uid(1)) = 0
    /\ \A w \in 1..MaxWorkers : workers[w] = Idle

-----------------------------------------------------------------------------
(* Migration specification: a database of episodes, some without an embedding, *)
(* and one run of migrate() against an embedding service that answers or fails *)

MigrateTexts == {<<"a", "b">>, <<"c", "d">>}

\* the service times out, answers a vector, or answers a list that is no vector
MigrateAnswers ==
    {ServiceAnswer("timeout", <<>>), ServiceAnswer("list", <<Num(0), Num(1)>>),
     ServiceAnswer("list", <<NotANumber, Num(1)>>)}

NextMigrate ==
    \/ /\ migration.pc = "idle"
       /\ \E text \in MigrateTexts, embedding \in {NoEmbedding, <<1, 0>>} :
             AddEpisode(1, text, <<>>, Num(5), 0, embedding)
    \/ \E available \in BOOLEAN : MigrateStart(available)
    \/ MigrateFetch
    \/ \E answer \in MigrateAnswers : MigrateRow(answer)

SpecMigrate == Init /\ [][NextMigrate]_vars

\* migrate() is a sequential script: once started, its next statement is executed
SpecMigrateFair ==
    /\ SpecMigrate
    /\ WF_vars(MigrateFetch)
    /\ WF_vars(\E answer \in MigrateAnswers : MigrateRow(answer))

\* migrate() has left its loop: no row was left, or an exception ended the run
MigrateOver == migration.pc \in {"done", "raised"}

\* C30: migrate() terminates on every database: a run that has entered its batch
\* loop leaves it, also when the embedding of some episode fails every time it is
\* asked for.
C30_MigrateTerminates == (migration.pc = "fetch") ~> MigrateOver
=============================================================================
